---- MODULE Spec2Model ----
(***************************************************************************)
(* State-machine model of the runner automation package                    *)
(* (src/runner_automation): RunnerPool, DynamicRunnerManager, Runner, the  *)
(* platform clients' queue read and RunnerManager's auto-mode monitor.     *)
(*                                                                         *)
(* The specifications share the variables:                               *)
(*   SpecPool  the RunnerPool API driven by an arbitrary caller            *)
(*   Spec      DynamicRunnerManager: start(), the monitor thread's scaling *)
(*             ticks, stop(), children exiting, and a caller that fills    *)
(*             the pool through RunnerPool's public operations             *)
(*   SpecMon   RunnerManager.monitor_lifecycle: the auto-mode and the      *)
(*             manual-mode loop, with GitHubAPI's queue count              *)
(*   SpecCli   cli.main from the command line to the exit code             *)
(*   SpecRunner one Runner object (install, register, start, stop,         *)
(*             deregister, cleanup) driven by an arbitrary caller          *)
(*   SpecGpu   GPUDetector's classification of one detected GPU            *)
(*   SpecLabels the label lists composed for one runner                    *)
(*   SpecAffinity ResourceOptimizer's per-runner cores and CPU affinity    *)
(*   SpecEmu   EmulationManager: is_emulation_needed, setup_emulation,     *)
(*             verify_emulation                                            *)
(*   SpecJobs  Spec's manager with the platform handing jobs to runners    *)
(*   SpecStop  the manager with stop() called while a tick is under way    *)
(*   SpecChild one Runner's child processes under start() and stop()       *)
(*   SpecLog   the config.sh command of register() and what is logged      *)
(*   SpecAssign the GPUs register_runners and _add_runner give to runners  *)
(*   SpecTests test_runner.py: parsing cargo's output, the exit code       *)
(***************************************************************************)
EXTENDS Integers, Sequences, FiniteSets, TLC

\* ------------------------------------------------------------------ bounds
NumRunners == 3        \* Runner objects that exist in one run
MaxPoolLen == 3        \* longest pool list the pool-API caller builds
MaxQueue == 5          \* longest pending-job list the platform reports
MaxTicks == 4          \* check intervals that elapse in one run
MaxMinRunners == 1     \* largest configured min_runners
MaxMaxRunners == 3     \* configured max_runners
MaxCrashed == 1        \* children that have exited on their own at one time
MaxRuns == 1           \* most workflow runs one status query returns
MaxChecks == 12        \* monitor checks in one run of the auto-mode loop
MaxRunnerCount == 1    \* largest RUNNER_COUNT
MaxFails == 3          \* most consecutive transient failures of one platform request
MaxDownloads == 2      \* downloads of the runner tarball in one run
MaxPoolSize == 3       \* largest pool size an affinity is computed for
MaxReplaced == 1       \* runners removed and replaced before the one being built
MaxChildren == 3       \* children one Runner object launches in one run
WaitStep == 10         \* seconds between two looks at a child stop() waits for
MaxGpus == 2           \* GPUs the detector finds on one host
MaxAssigned == 3       \* runners that are given a GPU in one run
MaxSuites == 4         \* test binaries in one cargo test output
MaxTests == 2          \* tests in one test binary

\* ------------------------------------------------------- program constants
scale_up_threshold == 2
scale_down_threshold == 0
scale_cooldown == 60
check_interval == 30
idle_timeout == 300
max_lifetime == 0
clean_on_deregister == TRUE
stop_timeout == 30

RunnerIds == 1..NumRunners
Platforms == {"github", "gitlab", "gitea"}
Caps == {"x64", "gpu"}

VARIABLES
    pool,             \* RunnerPool: runners, idle_runners, busy_runners, capabilities
    runner,           \* per Runner object: process handle, install_dir, platform entry
    cfg,              \* min_runners / max_runners of the DynamicRunnerManager
    platform,         \* which GitPlatformAPI implementation the manager holds
    now,              \* wall clock, seconds
    last_scale_time,  \* DynamicRunnerManager.last_scale_time
    next_runner_id,   \* DynamicRunnerManager.next_runner_id
    lock,             \* holder of DynamicRunnerManager.lock ("free" when released)
    running,          \* DynamicRunnerManager.running
    main_pc,          \* where the thread calling start()/stop() is
    mon_pc,           \* where the monitor thread is
    tick,             \* what the _check_and_scale call that just ended saw and did
    last_effect,      \* when a tick last added or stopped a runner (-1: never)
    stopped_pool,     \* the pool's runners at the time stop() was called
    idle_start,       \* _monitor_auto_mode's idle_start (-1 for None)
    shutdown_requested, \* RunnerManager.shutdown_requested
    auto_pc,          \* where _monitor_auto_mode is
    idle_evidence,    \* every check since idle_start was set really saw an empty queue
    issued,           \* the runner ids _add_runner has handed to Runner(...), in order
    mode,             \* RunnerConfig.mode
    cli,              \* cli.main: its command line, where it is, its exit code
    rn,               \* one Runner object: target_arch, process handle
    env,              \* that runner's install_dir, platform entry, downloads so far
    call,             \* what the last call on that runner was given and did
    lbl,              \* one composition of a runner's labels: inputs and the lists made
    aff,              \* one affinity computation: the host, the runner id, the result
    gpu,              \* one detected GPU before and after its classification
    emu,              \* one setup_emulation call: the host's state, where it is, its end
    job,              \* the pooled runners that are executing a job of the platform
    os,               \* one Runner's child processes and the stop() call under way
    reg,              \* one register() call: the config.sh command and the line logged
    asg,              \* one assignment of detected GPUs to runners
    tst               \* test_runner.py: the cargo output, the parser's counters, the exit code

vars == <<pool, runner, cfg, platform, now, last_scale_time, next_runner_id, lock,
          running, main_pc, mon_pc, tick, last_effect, stopped_pool, idle_start,
          shutdown_requested, auto_pc, idle_evidence, issued, mode, cli, rn, env, call,
          lbl, aff, gpu, emu, job, os, reg, asg, tst>>

\* ------------------------------------------------------------ Python lists
InList(s, x) == \E i \in 1..Len(s) : s[i] = x

FirstIndex(s, x) == CHOOSE i \in 1..Len(s) : s[i] = x /\ \A j \in 1..(i - 1) : s[j] # x

\* list.remove(x): drops the first occurrence only
ListRemove(s, x) ==
    LET k == FirstIndex(s, x)
    IN  [i \in 1..(Len(s) - 1) |-> IF i < k THEN s[i] ELSE s[i + 1]]

Elems(s) == {s[i] : i \in 1..Len(s)}

\* -------------------------------------------------------------- RunnerPool
EmptyPool ==
    [runners |-> <<>>, idle_runners |-> <<>>, busy_runners |-> <<>>,
     capabilities |-> [c \in Caps |-> <<>>]]

add_runner(p, r, caps) ==
    [runners |-> Append(p.runners, r),
     idle_runners |-> Append(p.idle_runners, r),
     busy_runners |-> p.busy_runners,
     capabilities |-> [c \in Caps |->
        IF c \in caps THEN Append(p.capabilities[c], r) ELSE p.capabilities[c]]]

mark_busy(p, r) ==
    IF InList(p.idle_runners, r)
    THEN [p EXCEPT !.idle_runners = ListRemove(p.idle_runners, r),
                   !.busy_runners = Append(p.busy_runners, r)]
    ELSE p

mark_idle(p, r) ==
    IF InList(p.busy_runners, r)
    THEN [p EXCEPT !.busy_runners = ListRemove(p.busy_runners, r),
                   !.idle_runners = Append(p.idle_runners, r)]
    ELSE p

remove_runner(p, r) ==
    [runners |-> IF InList(p.runners, r) THEN ListRemove(p.runners, r) ELSE p.runners,
     idle_runners |-> IF InList(p.idle_runners, r)
                      THEN ListRemove(p.idle_runners, r) ELSE p.idle_runners,
     busy_runners |-> IF InList(p.busy_runners, r)
                      THEN ListRemove(p.busy_runners, r) ELSE p.busy_runners,
     capabilities |-> [c \in Caps |->
        IF InList(p.capabilities[c], r)
        THEN ListRemove(p.capabilities[c], r) ELSE p.capabilities[c]]]

\* ------------------------------------------------------------------ Runner
\* Strings as sequences of pieces; a number is written in decimal digits.
RECURSIVE Digits(_)
Digits(n) == IF n < 10 THEN <<n>> ELSE Append(Digits(n \div 10), n % 10)

\* Runner.name = f"{config.name_prefix}-{target_arch}-{runner_id}"
RunnerName(arch, id) == <<"embeddenator-runner", "-", arch, "-">> \o Digits(id)

\* Runner.install_dir = parent / f"{config.install_dir.name}-{target_arch}-{runner_id}"
InstallDir(arch, id) == <<"./", "actions-runner", "-", arch, "-">> \o Digits(id)

\* A Runner object that has not been constructed yet.
NoRunner == [created |-> FALSE, process |-> "none", installed |-> FALSE,
             registered |-> FALSE, ops |-> <<>>]

\* A Runner after register() and start() both succeeded.
StartedRunner == [created |-> TRUE, process |-> "live", installed |-> TRUE,
                  registered |-> TRUE, ops |-> <<>>]

\* Runner.stop(): no handle -> nothing; otherwise terminate, wait(30), kill on
\* timeout, wait.  The handle is kept; the child is gone afterwards.
Runner_stop(r) ==
    IF r.process = "none" THEN r
    ELSE [r EXCEPT !.process = "dead", !.ops = Append(r.ops, "stop")]

\* Runner.deregister(): config.sh gone -> True without a token request;
\* otherwise removal token + config.sh remove, which the platform may refuse.
Runner_deregister(r, ok) ==
    IF ~r.installed THEN [r EXCEPT !.ops = Append(r.ops, "deregister")]
    ELSE IF ok THEN [r EXCEPT !.registered = FALSE, !.ops = Append(r.ops, "deregister")]
    ELSE [r EXCEPT !.ops = Append(r.ops, "deregister_failed")]

\* Runner.cleanup(): rmtree(install_dir) when the policy is on; a failure is logged.
Runner_cleanup(r, ok) ==
    IF clean_on_deregister /\ r.installed
    THEN IF ok THEN [r EXCEPT !.installed = FALSE, !.ops = Append(r.ops, "cleanup")]
         ELSE [r EXCEPT !.ops = Append(r.ops, "cleanup_failed")]
    ELSE [r EXCEPT !.ops = Append(r.ops, "cleanup")]

\* Runner.is_running(): a handle whose child has not exited.
is_running(r) == r.process = "live"

\* ---------------------------------------------------- DynamicRunnerManager
\* The manager's mutable state as the handlers below thread it through:
\* blocked = the calling thread waits for self.lock and will never get it,
\* raised = an exception is propagating, caught = one was logged and dropped,
\* overflow = the model has no Runner object left, added / stopped = what the
\* call did, issued = the runner ids it gave to Runner(...).
Mgr(p, rs, l, n, lst) ==
    [pool |-> p, runner |-> rs, lock |-> l, next_runner_id |-> n,
     last_scale_time |-> lst, blocked |-> FALSE, raised |-> FALSE,
     caught |-> FALSE, overflow |-> FALSE, added |-> 0, stopped |-> {},
     issued |-> <<>>]

\* Parameters of Runner.__init__ besides self, and the keywords _add_runner
\* passes to it.
RunnerInitParams == {"config", "github_api", "logger", "runner_id", "target_arch"}

AddRunnerKeywords ==
    {"runner_id", "target_arch", "gpu_info", "resource_limits", "custom_labels"}

\* A Runner.__init__ that also takes gpu_info, resource_limits and custom_labels.
RunnerInitAcceptsExtended(keywords) == keywords \subseteq RunnerInitParams \cup AddRunnerKeywords

\* A call binds only when every keyword names a parameter; otherwise TypeError.
RunnerInitAccepts(keywords) == keywords \subseteq RunnerInitParams

\* What register() / start() of a newly built runner can come to.
AddOutcomes == {"ok", "register_fails", "start_fails"}

\* _extract_capabilities of the labels _build_labels composes without a GPU.
ManagerCaps == {"x64"}

FreeSlots(m) == {i \in RunnerIds : ~m.runner[i].created}

\* _stop_runner: stop, deregister, cleanup, then "with self.lock" to drop the
\* runner from the pool.  threading.Lock is not reentrant: a caller that
\* already holds it waits here for ever.
stop_runner(m, rid, deregFail, cleanFail) ==
    LET r1 == Runner_stop(m.runner[rid])
        r2 == Runner_deregister(r1, rid \notin deregFail)
        r3 == Runner_cleanup(r2, rid \notin cleanFail)
        m1 == [m EXCEPT !.runner[rid] = r3, !.stopped = @ \cup {rid}]
    IN  IF m1.lock # "free"
        THEN [m1 EXCEPT !.blocked = TRUE]
        ELSE [m1 EXCEPT !.pool = remove_runner(@, rid)]

RECURSIVE scale_down_loop(_, _, _, _)
scale_down_loop(m, count, deregFail, cleanFail) ==
    IF count = 0 \/ m.blocked THEN m
    ELSE IF m.pool.idle_runners # <<>>
         THEN scale_down_loop(stop_runner(m, m.pool.idle_runners[1], deregFail, cleanFail),
                              count - 1, deregFail, cleanFail)
         ELSE scale_down_loop(m, count - 1, deregFail, cleanFail)

\* _scale_down: the whole loop runs inside "with self.lock".
scale_down(m, count, th, deregFail, cleanFail) ==
    IF m.lock # "free" THEN [m EXCEPT !.blocked = TRUE]
    ELSE LET after == scale_down_loop([m EXCEPT !.lock = th], count, deregFail, cleanFail)
         IN  IF after.blocked THEN after ELSE [after EXCEPT !.lock = "free"]

\* A counter that is read but not advanced.
next_id_kept(n) == n

\* self.next_runner_id += 1
next_id(n) == n + 1

\* _add_runner: take the next id under the lock, build the Runner, register,
\* start, and only then put it into the pool; a failed start deregisters.
mgr_add_runner(m, outcome) ==
    IF m.lock # "free" THEN [m EXCEPT !.blocked = TRUE]
    ELSE LET m1 == [m EXCEPT !.next_runner_id = next_id(@),
                             !.issued = Append(@, m.next_runner_id)]
         IN  IF ~RunnerInitAccepts(AddRunnerKeywords) THEN [m1 EXCEPT !.raised = TRUE]
             ELSE IF FreeSlots(m1) = {} THEN [m1 EXCEPT !.overflow = TRUE]
             ELSE LET slot == CHOOSE i \in FreeSlots(m1) : \A j \in FreeSlots(m1) : i <= j
                  IN  CASE outcome = "ok" ->
                             [m1 EXCEPT !.runner[slot] = StartedRunner,
                                        !.pool = add_runner(@, slot, ManagerCaps),
                                        !.added = @ + 1]
                        [] outcome = "start_fails" ->
                             [m1 EXCEPT !.runner[slot] =
                                 Runner_deregister([StartedRunner EXCEPT !.process = "none"], TRUE)]
                        [] OTHER ->
                             [m1 EXCEPT !.runner[slot] =
                                 [StartedRunner EXCEPT !.process = "none", !.registered = FALSE]]

RECURSIVE scale_up_loop(_, _, _, _)
scale_up_loop(m, i, count, outcomes) ==
    IF i > count \/ m.blocked \/ m.raised \/ m.overflow THEN m
    ELSE scale_up_loop(mgr_add_runner(m, outcomes[i]), i + 1, count, outcomes)

\* _scale_up: count calls of _add_runner; an exception leaves the loop.
scale_up(m, count, outcomes) == scale_up_loop(m, 1, count, outcomes)

\* The loop of stop() over list(self.pool.runners), inside "with self.lock".
RECURSIVE stop_all(_, _, _, _)
stop_all(m, rs, deregFail, cleanFail) ==
    IF rs = <<>> \/ m.blocked THEN m
    ELSE stop_all(stop_runner(m, Head(rs), deregFail, cleanFail), Tail(rs),
                  deregFail, cleanFail)

\* get_pending_jobs of the three platform clients: the length of the list it
\* returns, or -1 when it raises.  Only Gitea's catches the failed request
\* and answers with an empty list.
get_pending_jobs(pf, failed, n) ==
    IF pf = "gitea" THEN (IF failed THEN 0 ELSE n)
    ELSE (IF failed THEN -1 ELSE n)

\* The cooldown test with the comparison turned round.
InCooldownInverted(t, lst) == t - lst > scale_cooldown

\* The cooldown test of _check_and_scale.
InCooldown(t, lst) == t - lst < scale_cooldown

Min(a, b) == IF a < b THEN a ELSE b
Max(a, b) == IF a > b THEN a ELSE b

\* The decision of one _check_and_scale call from what it read.
Decide(q, cur, idle, t, lst, c) ==
    IF q < 0 THEN [kind |-> "error", count |-> 0]
    ELSE IF InCooldown(t, lst) THEN [kind |-> "cooldown", count |-> 0]
    ELSE IF q > scale_up_threshold /\ cur < c.max_runners
         THEN [kind |-> "up", count |-> Max(0, Min(q - idle, c.max_runners - cur))]
    ELSE IF q <= scale_down_threshold /\ idle > 1 /\ cur > c.min_runners
         THEN [kind |-> "down", count |-> Max(0, Min(idle - 1, cur - c.min_runners))]
    ELSE [kind |-> "none", count |-> 0]

\* _check_and_scale at time t with queue read q: the scaling call the decision
\* asks for, then last_scale_time = now unless the call raised (the except
\* clause swallows it) or never came back.
check_and_scale(m, th, t, q, c, outcomes, deregFail, cleanFail) ==
    LET cur == Len(m.pool.runners)
        idle == Len(m.pool.idle_runners)
        d == Decide(q, cur, idle, t, m.last_scale_time, c)
    IN  IF q < 0 THEN [m EXCEPT !.caught = TRUE]
        ELSE IF m.lock # "free" THEN [m EXCEPT !.blocked = TRUE]
        ELSE IF d.count = 0 THEN m
        ELSE LET after == IF d.kind = "up" THEN scale_up(m, d.count, outcomes)
                          ELSE scale_down(m, d.count, th, deregFail, cleanFail)
             IN  IF after.blocked \/ after.overflow THEN after
                 ELSE IF after.raised THEN [after EXCEPT !.raised = FALSE, !.caught = TRUE]
                 ELSE [after EXCEPT !.last_scale_time = t]

\* What the handler's external calls can come to, given what it will do.
OutcomesFor(kind, count) ==
    IF kind = "up" /\ count > 0 THEN [1..count -> AddOutcomes] ELSE {<<>>}

FailuresFor(kind, p) ==
    IF kind = "down" THEN SUBSET Elems(p.idle_runners) ELSE {{}}

\* The answers of the platform to one queue read: a failed request, or a list.
QueueLens == {0, scale_up_threshold + 1, MaxQueue}

QueueReads ==
    {[failed |-> TRUE, n |-> 0]} \cup {[failed |-> FALSE, n |-> k] : k \in QueueLens}

NoTick ==
    [valid |-> FALSE, at |-> 0, read_failed |-> FALSE, q |-> 0, cur |-> 0, idle |-> <<>>,
     kind |-> "none", count |-> 0, lst_before |-> 0, lst_after |-> 0, added |-> 0,
     stopped |-> {}, size_after |-> 0, returned |-> TRUE, caught |-> FALSE,
     dead_seen |-> {}, prev_effect |-> -1]

Configs ==
    {[min_runners |-> a, max_runners |-> MaxMaxRunners] : a \in 0..MaxMinRunners}

\* cli.main, not entered.
NoCli == [pc |-> "off"]

\* No Runner object under the caller's hands.
NoRn == [target_arch |-> "none", process |-> "none"]

\* install_dir absent, no entry on the platform, nothing downloaded.
NoEnv == [exists |-> FALSE, config_sh |-> FALSE, run_sh |-> FALSE, tarball |-> FALSE,
          registered |-> FALSE, downloads |-> 0]

NoCall == [op |-> "none", result |-> "none", install |-> "none", fails |-> 0,
           requests |-> 0, attempts |-> 0, config_before |-> FALSE,
           process_before |-> "none", trail |-> <<>>]

\* The label composer, the resource optimizer, the GPU detector and the
\* emulation manager, not exercised.
NoLbl == [pc |-> "off"]
NoAff == [pc |-> "off"]
NoGpu == [pc |-> "off"]
NoEmu == [pc |-> "off"]

\* The platform's job assignment, the runner's children, the register
\* command, the GPU assignment and the test report, not exercised.
NoOs == [pc |-> "off"]
NoReg == [pc |-> "off"]
NoAsg == [pc |-> "off"]
NoTst == [pc |-> "off"]

UnitsAtRest ==
    /\ job = {}
    /\ os = NoOs
    /\ reg = NoReg
    /\ asg = NoAsg
    /\ tst = NoTst

UnitsUnchanged == UNCHANGED <<job, os, reg, asg, tst>>

HostAtRest ==
    /\ lbl = NoLbl
    /\ aff = NoAff
    /\ gpu = NoGpu
    /\ emu = NoEmu

HostUnchanged == UNCHANGED <<lbl, aff, gpu, emu>> /\ UnitsUnchanged

\* The command line and the single runner, at rest while a manager is driven.
LifeAtRest ==
    /\ cli = NoCli
    /\ rn = NoRn
    /\ env = NoEnv
    /\ call = NoCall
    /\ HostAtRest
    /\ UnitsAtRest

LifeUnchanged == UNCHANGED <<cli, rn, env, call, mode, lbl, aff, gpu, emu>> /\ UnitsUnchanged

\* The auto-mode monitor's variables, at rest while the manager runs.
MonAtRest ==
    /\ idle_start = -1
    /\ shutdown_requested = FALSE
    /\ auto_pc = "off"
    /\ idle_evidence = TRUE

\* When the manager was constructed, on a clock whose 0 is the earliest moment
\* start() is called: just then, or a cooldown earlier.
ConstructedAt == {0 - scale_cooldown, 0}

\* DynamicRunnerManager.__init__: an empty pool, ids from 1, a free lock, not
\* running, and last_scale_time = the time of construction.
Init ==
    /\ pool = EmptyPool
    /\ runner = [i \in RunnerIds |-> NoRunner]
    /\ cfg \in {c \in Configs : c.min_runners <= c.max_runners}
    /\ platform \in Platforms
    /\ now = 0
    /\ last_scale_time \in ConstructedAt
    /\ next_runner_id = 1
    /\ lock = "free"
    /\ running = FALSE
    /\ main_pc = "init"
    /\ mon_pc = "none"
    /\ tick = NoTick
    /\ last_effect = -1
    /\ stopped_pool = {}
    /\ issued = <<>>
    /\ mode = "auto"
    /\ MonAtRest
    /\ LifeAtRest

MonUnchanged == UNCHANGED <<idle_start, shutdown_requested, auto_pc, idle_evidence>>

\* The caller of the pool API acts while the manager is alive.
Alive == main_pc \in {"init", "started"} /\ mon_pc # "blocked"

\* A caller puts a registered, started Runner into manager.pool
\* (RunnerPool.add_runner), never beyond max_runners.
ClientAddRunner ==
    /\ Alive
    /\ Len(pool.runners) < cfg.max_runners
    /\ \E slot \in RunnerIds :
          /\ ~runner[slot].created
          /\ \A j \in RunnerIds : ~runner[j].created => slot <= j
          /\ runner' = [runner EXCEPT ![slot] = StartedRunner]
          /\ pool' = add_runner(pool, slot, ManagerCaps)
    /\ tick' = NoTick
    /\ UNCHANGED <<cfg, platform, now, last_scale_time, next_runner_id, lock, running,
                   main_pc, mon_pc, last_effect, stopped_pool>>
    /\ MonUnchanged
    /\ LifeUnchanged
    /\ UNCHANGED issued

\* A caller records that a pooled runner took a job (RunnerPool.mark_busy).
ClientMarkBusy ==
    /\ Alive
    /\ \E r \in Elems(pool.idle_runners) : pool' = mark_busy(pool, r)
    /\ tick' = NoTick
    /\ UNCHANGED <<runner, cfg, platform, now, last_scale_time, next_runner_id, lock,
                   running, main_pc, mon_pc, last_effect, stopped_pool>>
    /\ MonUnchanged
    /\ LifeUnchanged
    /\ UNCHANGED issued

\* A caller records that a pooled runner finished its job (RunnerPool.mark_idle).
ClientMarkIdle ==
    /\ Alive
    /\ \E r \in Elems(pool.busy_runners) : pool' = mark_idle(pool, r)
    /\ tick' = NoTick
    /\ UNCHANGED <<runner, cfg, platform, now, last_scale_time, next_runner_id, lock,
                   running, main_pc, mon_pc, last_effect, stopped_pool>>
    /\ MonUnchanged
    /\ LifeUnchanged
    /\ UNCHANGED issued

\* The child process of a pooled runner exits on its own.
ChildExit ==
    /\ Alive
    /\ Cardinality({r \in Elems(pool.runners) : ~is_running(runner[r])}) < MaxCrashed
    /\ \E r \in Elems(pool.runners) :
          /\ runner[r].process = "live"
          /\ runner' = [runner EXCEPT ![r].process = "dead"]
    /\ tick' = NoTick
    /\ UNCHANGED <<pool, cfg, platform, now, last_scale_time, next_runner_id, lock,
                   running, main_pc, mon_pc, last_effect, stopped_pool>>
    /\ MonUnchanged
    /\ LifeUnchanged
    /\ UNCHANGED issued

\* start(): _scale_to(min_runners), then running = True and the monitor thread.
\* An exception from _scale_up leaves start() before either; a _scale_down
\* that waits for the lock never returns.
Start ==
    /\ main_pc = "init"
    /\ LET m == Mgr(pool, runner, lock, next_runner_id, last_scale_time)
           current == Len(pool.runners)
           target == cfg.min_runners
           kind == IF target > current THEN "up"
                   ELSE IF target < current THEN "down" ELSE "none"
       IN  \E outcomes \in OutcomesFor(kind, target - current),
              deregFail \in FailuresFor(kind, pool), cleanFail \in FailuresFor(kind, pool) :
             \E after \in {IF m.lock # "free" THEN [m EXCEPT !.blocked = TRUE]
                           ELSE IF kind = "up" THEN scale_up(m, target - current, outcomes)
                           ELSE IF kind = "down"
                                THEN scale_down(m, current - target, "main",
                                                deregFail, cleanFail)
                           ELSE m} :
                 /\ ~after.overflow
                 /\ deregFail \subseteq after.stopped
                 /\ cleanFail \subseteq after.stopped
                 /\ pool' = after.pool
                 /\ runner' = after.runner
                 /\ lock' = after.lock
                 /\ next_runner_id' = after.next_runner_id
                 /\ main_pc' = IF after.blocked THEN "start_blocked"
                               ELSE IF after.raised THEN "start_raised" ELSE "started"
                 /\ running' = (~after.blocked /\ ~after.raised)
                 /\ mon_pc' = IF ~after.blocked /\ ~after.raised THEN "running" ELSE mon_pc
                 /\ issued' = issued \o after.issued
    /\ tick' = NoTick
    /\ UNCHANGED <<cfg, platform, now, last_scale_time, last_effect, stopped_pool>>
    /\ MonUnchanged
    /\ LifeUnchanged

\* _check_and_scale as the monitor thread runs it, then sleep(check_interval).
CheckAndScaleTick ==
    /\ now + check_interval <= MaxTicks * check_interval
    /\ \E read \in QueueReads :
         LET m == Mgr(pool, runner, lock, next_runner_id, last_scale_time)
             q == get_pending_jobs(platform, read.failed, read.n)
             cur == Len(pool.runners)
             idle == Len(pool.idle_runners)
             d == Decide(q, cur, idle, now, last_scale_time, cfg)
         IN  \E outcomes \in OutcomesFor(d.kind, d.count),
                deregFail \in FailuresFor(d.kind, pool), cleanFail \in FailuresFor(d.kind, pool) :
               \E after \in {check_and_scale(m, "monitor", now, q, cfg, outcomes,
                                               deregFail, cleanFail)} :
                   /\ ~after.overflow
                   /\ deregFail \subseteq after.stopped
                   /\ cleanFail \subseteq after.stopped
                   /\ pool' = after.pool
                   /\ runner' = after.runner
                   /\ lock' = after.lock
                   /\ next_runner_id' = after.next_runner_id
                   /\ last_scale_time' = after.last_scale_time
                   /\ mon_pc' = IF after.blocked THEN "blocked" ELSE "running"
                   /\ issued' = issued \o after.issued
                   /\ last_effect' = IF after.added > 0 \/ after.stopped # {}
                                     THEN now ELSE last_effect
                   /\ tick' = [valid |-> TRUE, at |-> now, read_failed |-> read.failed,
                               q |-> q, cur |-> cur, idle |-> pool.idle_runners,
                               kind |-> d.kind,
                               count |-> d.count, lst_before |-> last_scale_time,
                               lst_after |-> after.last_scale_time,
                               added |-> after.added, stopped |-> after.stopped,
                               size_after |-> Len(after.pool.runners),
                               returned |-> ~after.blocked, caught |-> after.caught,
                               dead_seen |-> {r \in Elems(pool.runners) :
                                                ~is_running(runner[r])},
                               prev_effect |-> last_effect]
    /\ now' = now + check_interval
    /\ UNCHANGED <<cfg, platform, running, main_pc, stopped_pool>>
    /\ MonUnchanged
    /\ LifeUnchanged

\* One pass of _monitor_loop: "while self.running" holds, _check_and_scale,
\* sleep.
MonitorTick ==
    /\ mon_pc = "running"
    /\ running
    /\ CheckAndScaleTick

\* _monitor_loop finds running False and returns.
MonitorExit ==
    /\ mon_pc = "running"
    /\ ~running
    /\ mon_pc' = "exited"
    /\ tick' = NoTick
    /\ UNCHANGED <<pool, runner, cfg, platform, now, last_scale_time, next_runner_id,
                   lock, running, main_pc, last_effect, stopped_pool>>
    /\ MonUnchanged
    /\ LifeUnchanged
    /\ UNCHANGED issued

\* stop(): running = False, join(timeout=10), then under the lock
\* _stop_runner for every runner of the pool.
Stop ==
    /\ main_pc \in {"started", "start_raised"}
    /\ \E deregFail \in SUBSET Elems(pool.runners), cleanFail \in SUBSET Elems(pool.runners) :
         \E after \in {LET m == Mgr(pool, runner, lock, next_runner_id, last_scale_time)
                       IN  IF m.lock # "free" THEN [m EXCEPT !.blocked = TRUE]
                           ELSE stop_all([m EXCEPT !.lock = "main"], pool.runners,
                                         deregFail, cleanFail)} :
             /\ deregFail \subseteq after.stopped
             /\ cleanFail \subseteq after.stopped
             /\ pool' = after.pool
             /\ runner' = after.runner
             /\ lock' = IF after.blocked THEN after.lock ELSE "free"
             /\ main_pc' = IF after.blocked THEN "stop_blocked" ELSE "stopped"
    /\ running' = FALSE
    /\ stopped_pool' = Elems(pool.runners)
    /\ tick' = NoTick
    /\ UNCHANGED <<cfg, platform, now, last_scale_time, next_runner_id, mon_pc,
                   last_effect>>
    /\ MonUnchanged
    /\ LifeUnchanged
    /\ UNCHANGED issued

Next ==
    \/ ClientAddRunner
    \/ ClientMarkBusy
    \/ ClientMarkIdle
    \/ ChildExit
    \/ Start
    \/ MonitorTick
    \/ MonitorExit
    \/ Stop

Spec == Init /\ [][Next]_vars

\* ------------------------------------------------- RunnerPool driven directly
\* The manager's variables while only a RunnerPool or only the auto-mode
\* monitor is exercised.
ManagerAtRest ==
    /\ runner = [i \in RunnerIds |-> NoRunner]
    /\ cfg = [min_runners |-> MaxMinRunners, max_runners |-> MaxMaxRunners]
    /\ platform = "github"
    /\ last_scale_time = 0
    /\ next_runner_id = 1
    /\ lock = "free"
    /\ running = FALSE
    /\ main_pc = "init"
    /\ mon_pc = "none"
    /\ tick = NoTick
    /\ last_effect = -1
    /\ stopped_pool = {}
    /\ issued = <<>>

ManagerUnchanged ==
    UNCHANGED <<runner, cfg, platform, last_scale_time, next_runner_id, lock, running,
                main_pc, mon_pc, tick, last_effect, stopped_pool>>

\* RunnerPool.__init__
InitPool ==
    /\ pool = EmptyPool
    /\ now = 0
    /\ ManagerAtRest
    /\ MonAtRest
    /\ mode = "auto"
    /\ LifeAtRest

\* pool.add_runner(r, caps) for any Runner object r, pooled already or not.
PoolAddRunner ==
    /\ Len(pool.runners) < MaxPoolLen
    /\ \E r \in RunnerIds, caps \in SUBSET Caps : pool' = add_runner(pool, r, caps)
    /\ UNCHANGED now
    /\ ManagerUnchanged
    /\ MonUnchanged
    /\ LifeUnchanged
    /\ UNCHANGED issued

\* pool.mark_busy(r)
PoolMarkBusy ==
    /\ \E r \in RunnerIds : pool' = mark_busy(pool, r)
    /\ UNCHANGED now
    /\ ManagerUnchanged
    /\ MonUnchanged
    /\ LifeUnchanged
    /\ UNCHANGED issued

\* pool.mark_idle(r)
PoolMarkIdle ==
    /\ \E r \in RunnerIds : pool' = mark_idle(pool, r)
    /\ UNCHANGED now
    /\ ManagerUnchanged
    /\ MonUnchanged
    /\ LifeUnchanged
    /\ UNCHANGED issued

\* pool.remove_runner(r)
PoolRemoveRunner ==
    /\ \E r \in RunnerIds : pool' = remove_runner(pool, r)
    /\ UNCHANGED now
    /\ ManagerUnchanged
    /\ MonUnchanged
    /\ LifeUnchanged
    /\ UNCHANGED issued

NextPool ==
    \/ PoolAddRunner
    \/ PoolMarkBusy
    \/ PoolMarkIdle
    \/ PoolRemoveRunner

SpecPool == InitPool /\ [][NextPool]_vars

\* ------------------------------------- RunnerManager._monitor_auto_mode
\* One status query of the platform: the request fails, or it answers with a
\* list of n workflow runs.
RunQueries == [failed : BOOLEAN, n : 0..MaxRuns]

\* GitHubAPI.get_workflow_runs: the length of the list it returns; a failed
\* request is logged and answered with the empty list.
get_workflow_runs(query) == IF query.failed THEN 0 ELSE query.n

\* GitHubAPI.count_queued_jobs: queued runs plus in-progress runs.
count_queued_jobs(queued, in_progress) ==
    get_workflow_runs(queued) + get_workflow_runs(in_progress)

\* The values of RUNNER_MODE that validate() lets through.
Modes == {"auto", "manual"}

\* When the runners of RunnerManager.runners were started.
RunnerStartTimes == {0}

\* RunnerManager.__init__ and the entry of _monitor_auto_mode: no shutdown
\* requested, idle_start = None.
InitMon ==
    /\ pool = EmptyPool
    /\ now = 0
    /\ ManagerAtRest
    /\ mode \in Modes
    /\ LifeAtRest
    /\ idle_start = -1
    /\ shutdown_requested = FALSE
    /\ auto_pc = "loop"
    /\ idle_evidence = TRUE

\* One pass of the while loop: count the queue, run the idle timer, check the
\* lifetime limit, sleep(check_interval).
MonitorCheck ==
    /\ mode # "manual"
    /\ auto_pc = "loop"
    /\ ~shutdown_requested
    /\ now < MaxChecks * check_interval
    /\ \E queued \in RunQueries, in_progress \in RunQueries :
         LET queued_jobs == count_queued_jobs(queued, in_progress)
             answered == ~queued.failed /\ ~in_progress.failed
             timeout == /\ queued_jobs = 0
                        /\ idle_start # -1
                        /\ now - idle_start >= idle_timeout
             too_old == /\ max_lifetime > 0
                        /\ \E st \in RunnerStartTimes : now - st >= max_lifetime
         IN  /\ idle_start' = IF queued_jobs > 0 THEN -1
                              ELSE IF idle_start = -1 THEN now ELSE idle_start
             /\ idle_evidence' = IF queued_jobs > 0 THEN TRUE
                                 ELSE IF idle_start = -1 THEN answered
                                 ELSE idle_evidence /\ answered
             /\ auto_pc' = IF timeout THEN "idle_shutdown" ELSE "loop"
             /\ shutdown_requested' = (~timeout /\ too_old)
             /\ now' = IF timeout THEN now ELSE now + check_interval
    /\ UNCHANGED pool
    /\ ManagerUnchanged
    /\ LifeUnchanged
    /\ UNCHANGED issued

\* One pass of _monitor_manual_mode's loop: look at the runners' health,
\* sleep(check_interval).  The queue is not read and no timer is kept.
ManualCheck ==
    /\ mode = "manual"
    /\ auto_pc = "loop"
    /\ ~shutdown_requested
    /\ now < MaxChecks * check_interval
    /\ now' = now + check_interval
    /\ UNCHANGED <<pool, idle_start, shutdown_requested, auto_pc, idle_evidence>>
    /\ ManagerUnchanged
    /\ LifeUnchanged
    /\ UNCHANGED issued

\* _handle_shutdown: SIGINT or SIGTERM arrives.
HandleShutdown ==
    /\ auto_pc = "loop"
    /\ ~shutdown_requested
    /\ shutdown_requested' = TRUE
    /\ UNCHANGED <<pool, now, idle_start, auto_pc, idle_evidence>>
    /\ ManagerUnchanged
    /\ LifeUnchanged
    /\ UNCHANGED issued

\* The while condition finds shutdown_requested set: the loop ends.
MonitorLeave ==
    /\ auto_pc = "loop"
    /\ shutdown_requested
    /\ auto_pc' = "shutdown_requested"
    /\ UNCHANGED <<pool, now, idle_start, shutdown_requested, idle_evidence>>
    /\ ManagerUnchanged
    /\ LifeUnchanged
    /\ UNCHANGED issued

NextMon ==
    \/ MonitorCheck
    \/ ManualCheck
    \/ HandleShutdown
    \/ MonitorLeave

SpecMon == InitMon /\ [][NextMon]_vars

\* ------------------------------------------------------------------ cli.main
Commands == {"register", "start", "stop", "status", "monitor", "run"}

\* The attributes RunnerConfig.__init__ sets.
ConfigAttributes ==
    {"repository", "api_url", "token", "name_prefix", "labels", "group", "work_dir",
     "mode", "idle_timeout", "check_interval", "max_lifetime", "runner_count",
     "deployment_strategy", "deployment_stagger", "cpu_cores", "memory_gb",
     "disk_threshold_gb", "install_dir", "version", "fallback_version", "arch",
     "target_archs", "enable_emulation", "emulation_auto_install", "log_level",
     "log_file", "enable_metrics", "metrics_file", "api_timeout",
     "version_check_timeout", "ephemeral", "replace_existing", "disable_auto_update",
     "additional_flags", "clean_on_deregister", "clean_docker",
     "docker_cleanup_threshold_gb"}

\* The attributes of config RunnerManager.__init__ reads on every path.
ManagerInitReads ==
    {"log_level", "log_file", "emulation_method", "enable_gpu",
     "enable_resource_optimization"}

\* Reading an attribute the object does not have raises AttributeError.
ConfigHas(names) == names \subseteq ConfigAttributes

\* The keywords register_runners passes to Runner(...).
RegisterRunnerKeywords ==
    {"runner_id", "target_arch", "gpu_info", "resource_limits", "custom_labels"}

\* RunnerConfig.validate: is the list of errors empty?
validate(c, m) ==
    /\ c.repository_set
    /\ c.token_set
    /\ m \in Modes
    /\ c.strategy_ok
    /\ c.runner_count >= 1

\* The try block of main once the manager exists, for a manager whose
\* runners list is empty at entry: the value main returns.  reg_ok / start_ok
\* are what registering and starting come to when nothing raises.
Dispatch(c, reg_ok, start_ok) ==
    LET register_raises == c.runner_count >= 1 /\ ~RunnerInitAccepts(RegisterRunnerKeywords)
    IN  CASE c.command = "register" ->
                 IF register_raises THEN 1 ELSE IF reg_ok THEN 0 ELSE 1
          [] c.command = "start" -> 1
          [] c.command = "stop" -> 0
          [] c.command = "status" -> 0
          [] c.command = "monitor" -> 1
          [] c.command = "run" ->
                 IF register_raises \/ ~reg_ok \/ ~start_ok \/ c.runner_count < 1
                 THEN 1 ELSE 0
          [] OTHER -> 1

\* The process is started with some command line and environment.
InitCli ==
    /\ pool = EmptyPool
    /\ now = 0
    /\ ManagerAtRest
    /\ MonAtRest
    /\ mode \in Modes \cup {"other"}
    /\ cli \in [pc : {"start"}, command : Commands \cup {"none"},
                repository_set : BOOLEAN, token_set : BOOLEAN, strategy_ok : BOOLEAN,
                runner_count : 0..MaxRunnerCount, sigint : {FALSE},
                handlers_installed : {FALSE}, exit_code : {-1}]
    /\ rn = NoRn
    /\ env = NoEnv
    /\ call = NoCall
    /\ HostAtRest
    /\ UnitsAtRest

CliUnchanged ==
    /\ UNCHANGED <<pool, now, mode, rn, env, call, issued>>
    /\ HostUnchanged
    /\ ManagerUnchanged
    /\ MonUnchanged

\* parse_args; no command: print the help and return 1.
CliParse ==
    /\ cli.pc = "start"
    /\ cli' = IF cli.command = "none"
              THEN [cli EXCEPT !.pc = "exited", !.exit_code = 1]
              ELSE [cli EXCEPT !.pc = "parsed"]
    /\ CliUnchanged

\* RunnerConfig(), the overrides, validate(); errors: return 1.
CliValidate ==
    /\ cli.pc = "parsed"
    /\ cli' = IF validate(cli, mode)
              THEN [cli EXCEPT !.pc = "validated"]
              ELSE [cli EXCEPT !.pc = "exited", !.exit_code = 1]
    /\ CliUnchanged

\* GitHubAPI(...), RunnerManager(...) and the try block.  The constructor is
\* called outside the try: an exception from it ends the process with the
\* interpreter's exit status 1, before the signal handlers are installed.
CliCommand ==
    /\ cli.pc = "validated"
    /\ \E reg_ok \in BOOLEAN, start_ok \in BOOLEAN :
         cli' = IF ~ConfigHas(ManagerInitReads)
                THEN [cli EXCEPT !.pc = "exited", !.exit_code = 1]
                ELSE [cli EXCEPT !.pc = "exited", !.handlers_installed = TRUE,
                                 !.exit_code = Dispatch(cli, reg_ok, start_ok)]
    /\ CliUnchanged

\* SIGINT while main is still before the try block and no handler has
\* replaced Python's: KeyboardInterrupt leaves main uncaught and the
\* interpreter ends the process with the signal (status 130).
CliSigint ==
    /\ cli.pc \in {"start", "parsed", "validated"}
    /\ ~cli.handlers_installed
    /\ cli' = [cli EXCEPT !.pc = "exited", !.sigint = TRUE, !.exit_code = 130]
    /\ CliUnchanged

NextCli ==
    \/ CliParse
    \/ CliValidate
    \/ CliCommand
    \/ CliSigint

SpecCli == InitCli /\ [][NextCli]_vars

\* ------------------------------------------------- one Runner and its installer
\* Keys of RunnerInstaller.RUNNER_DOWNLOAD_URLS.
SupportedArchs == {"x64", "arm64", "riscv64"}

\* Values RUNNER_ARCH / RUNNER_TARGET_ARCHITECTURES give a runner; they are
\* not validated.
TargetArchs == {"x64", "arm64", "armv7"}

\* shutil.rmtree(install_dir): everything gone, or an error that leaves it.
rmtree(e, ok) ==
    IF ok THEN [e EXCEPT !.exists = FALSE, !.config_sh = FALSE, !.run_sh = FALSE,
                         !.tarball = FALSE]
    ELSE e

\* RunnerInstaller.install(install_dir) for architecture arch.  dl_ok: the
\* download works; unpack_ok: tar works; rm_ok: the rmtree of the except
\* clause works (when it does not, its exception leaves install()).
install(e, arch, dl_ok, unpack_ok, rm_ok) ==
    IF e.exists THEN [env |-> e, result |-> "ok_existing"]
    ELSE LET made == [e EXCEPT !.exists = TRUE]
         IN  IF arch \notin SupportedArchs THEN [env |-> made, result |-> "fail_arch"]
             ELSE LET tried == [made EXCEPT !.downloads = @ + 1]
                  IN  IF ~dl_ok
                      THEN [env |-> rmtree(tried, rm_ok),
                            result |-> IF rm_ok THEN "fail_download" ELSE "raised"]
                      ELSE IF ~unpack_ok
                      THEN [env |-> rmtree([tried EXCEPT !.tarball = TRUE], rm_ok),
                            result |-> IF rm_ok THEN "fail_unpack" ELSE "raised"]
                      ELSE [env |-> [tried EXCEPT !.config_sh = TRUE, !.run_sh = TRUE],
                            result |-> "ok_fresh"]

\* _make_request of the platform clients: one urlopen; an error is logged and
\* raised again.  fails = how many times in a row the network fails
\* transiently from now on.
make_request(fails) == [ok |-> fails = 0, attempts |-> 1]

\* Runner.register(): install, registration token, config.sh.
register(r, e, dl_ok, unpack_ok, rm_ok, fails, config_ok) ==
    LET inst == install(e, r.target_arch, dl_ok, unpack_ok, rm_ok)
        req == make_request(fails)
        base == [env |-> inst.env, install |-> inst.result, requests |-> 0,
                 attempts |-> 0, result |-> "false"]
    IN  IF inst.result = "raised" THEN [base EXCEPT !.result = "raised"]
        ELSE IF inst.result \notin {"ok_existing", "ok_fresh"} THEN base
        ELSE LET asked == [base EXCEPT !.requests = 1, !.attempts = req.attempts]
             IN  IF ~req.ok THEN asked
                 ELSE IF ~inst.env.config_sh THEN asked
                 ELSE IF ~config_ok THEN asked
                 ELSE [asked EXCEPT !.env.registered = TRUE, !.result = "true"]

\* Runner.start(): run.sh must exist; Popen gives the handle.
start(r, e, popen_ok) ==
    IF ~e.run_sh THEN [rn |-> r, result |-> "false"]
    ELSE IF popen_ok THEN [rn |-> [r EXCEPT !.process = "live"], result |-> "true"]
    ELSE [rn |-> r, result |-> "false"]

\* Runner.stop(): no handle -> True; terminate / wait / kill end the child;
\* self.process is not touched.
stop(r, term_ok) ==
    IF r.process = "none" THEN [rn |-> r, result |-> "true"]
    ELSE IF term_ok THEN [rn |-> [r EXCEPT !.process = "dead"], result |-> "true"]
    ELSE [rn |-> r, result |-> "false"]

\* deregister() asking for the removal token before it looks for config.sh.
deregister_token_first(e, fails, remove_ok) ==
    LET req == make_request(fails)
        asked == [env |-> e, requests |-> 1, attempts |-> req.attempts, result |-> "false"]
    IN  IF ~req.ok THEN asked
        ELSE IF ~e.config_sh THEN [asked EXCEPT !.result = "true"]
        ELSE IF ~remove_ok THEN asked
        ELSE [asked EXCEPT !.env.registered = FALSE, !.result = "true"]

\* A deregister() that reports success while the platform entry stays.
deregister_entry_kept(e, fails, remove_ok) ==
    LET req == make_request(fails)
        asked == [env |-> e, requests |-> 1, attempts |-> req.attempts, result |-> "false"]
    IN  IF ~e.config_sh
        THEN [env |-> e, requests |-> 0, attempts |-> 0, result |-> "true"]
        ELSE IF ~req.ok THEN asked
        ELSE IF ~remove_ok THEN asked
        ELSE [asked EXCEPT !.result = "true"]

\* Runner.deregister(): config.sh gone -> True at once; else removal token,
\* then config.sh remove.
deregister(e, fails, remove_ok) ==
    LET req == make_request(fails)
        asked == [env |-> e, requests |-> 1, attempts |-> req.attempts, result |-> "false"]
    IN  IF ~e.config_sh
        THEN [env |-> e, requests |-> 0, attempts |-> 0, result |-> "true"]
        ELSE IF ~req.ok THEN asked
        ELSE IF ~remove_ok THEN asked
        ELSE [asked EXCEPT !.env.registered = FALSE, !.result = "true"]

\* Runner.cleanup(): rmtree when the policy is on and the directory exists.
cleanup(e, rm_ok) ==
    IF clean_on_deregister /\ e.exists THEN rmtree(e, rm_ok) ELSE e

\* Runner.__init__ for some target architecture; nothing is on disk yet.
InitRunner ==
    /\ pool = EmptyPool
    /\ now = 0
    /\ ManagerAtRest
    /\ MonAtRest
    /\ mode = "auto"
    /\ cli = NoCli
    /\ rn \in [target_arch : TargetArchs, process : {"none"}]
    /\ env = NoEnv
    /\ call = NoCall
    /\ HostAtRest
    /\ UnitsAtRest

RunnerUnchanged ==
    /\ UNCHANGED <<pool, now, mode, cli, issued>>
    /\ HostUnchanged
    /\ ManagerUnchanged
    /\ MonUnchanged

\* The last three calls on the runner: a register() or deregister() that
\* returned True with the directory and the platform entry as it left them,
\* anything else as "other".
Trail(op, res, after) ==
    LET entry == IF op \in {"register", "deregister"} /\ res = "true"
                 THEN [op |-> op, env |-> after]
                 ELSE [op |-> "other", env |-> NoEnv]
        all == Append(call.trail, entry)
    IN  IF Len(all) > 3 THEN Tail(all) ELSE all

Called(op, res, before, after) ==
    [NoCall EXCEPT !.op = op, !.result = res, !.config_before = before.config_sh,
                   !.process_before = rn.process, !.trail = Trail(op, res, after)]

\* A caller installs into the runner's directory (RunnerInstaller.install).
InstallerInstall ==
    /\ env.exists \/ env.downloads < MaxDownloads
    /\ \E dl_ok \in BOOLEAN, unpack_ok \in BOOLEAN, rm_ok \in BOOLEAN :
         \E out \in {install(env, rn.target_arch, dl_ok, unpack_ok, rm_ok)} :
            /\ env' = out.env
            /\ call' = [Called("install",
                               IF out.result = "raised" THEN "raised"
                               ELSE IF out.result \in {"ok_existing", "ok_fresh"}
                                    THEN "true" ELSE "false", env, out.env)
                          EXCEPT !.install = out.result]
    /\ UNCHANGED rn
    /\ RunnerUnchanged

\* runner.register()
RunnerRegister ==
    /\ env.exists \/ env.downloads < MaxDownloads
    /\ \E dl_ok \in BOOLEAN, unpack_ok \in BOOLEAN, rm_ok \in BOOLEAN,
          fails \in 0..MaxFails, config_ok \in BOOLEAN :
         \E out \in {register(rn, env, dl_ok, unpack_ok, rm_ok, fails, config_ok)} :
            /\ env' = out.env
            /\ call' = [Called("register", out.result, env, out.env)
                          EXCEPT !.install = out.install,
                                 !.fails = IF out.requests > 0 THEN fails ELSE 0,
                                 !.requests = out.requests, !.attempts = out.attempts]
    /\ UNCHANGED rn
    /\ RunnerUnchanged

\* runner.start()
RunnerStart ==
    /\ \E popen_ok \in BOOLEAN :
         \E out \in {start(rn, env, popen_ok)} :
            /\ rn' = out.rn
            /\ call' = Called("start", out.result, env, env)
    /\ UNCHANGED env
    /\ RunnerUnchanged

\* runner.stop()
RunnerStop ==
    /\ \E term_ok \in BOOLEAN :
         \E out \in {stop(rn, term_ok)} :
            /\ rn' = out.rn
            /\ call' = Called("stop", out.result, env, env)
    /\ UNCHANGED env
    /\ RunnerUnchanged

\* runner.deregister()
RunnerDeregister ==
    /\ \E fails \in 0..MaxFails, remove_ok \in BOOLEAN :
         \E out \in {deregister(env, fails, remove_ok)} :
            /\ env' = out.env
            /\ call' = [Called("deregister", out.result, env, out.env)
                          EXCEPT !.fails = fails, !.requests = out.requests,
                                 !.attempts = out.attempts]
    /\ UNCHANGED rn
    /\ RunnerUnchanged

\* runner.cleanup()
RunnerCleanup ==
    /\ \E rm_ok \in BOOLEAN :
         \E after \in {cleanup(env, rm_ok)} :
            /\ env' = after
            /\ call' = Called("cleanup", "none", env, after)
    /\ UNCHANGED rn
    /\ RunnerUnchanged

\* The runner's child process exits on its own.
RunnerChildExit ==
    /\ rn.process = "live"
    /\ rn' = [rn EXCEPT !.process = "dead"]
    /\ call' = Called("child_exit", "none", env, env)
    /\ UNCHANGED env
    /\ RunnerUnchanged

NextRunner ==
    \/ InstallerInstall
    \/ RunnerRegister
    \/ RunnerStart
    \/ RunnerStop
    \/ RunnerDeregister
    \/ RunnerCleanup
    \/ RunnerChildExit

SpecRunner == InitRunner /\ [][NextRunner]_vars

\* ------------------------------------------------------ GPUDetector
\* The product names the detector is given here, with the vendor whose tool
\* reports them.
GpuNames ==
    {"Tesla T4", "NVIDIA A100", "GeForce GTX 1050",
     "Instinct MI300X", "Radeon RX 7900 XTX", "Radeon RX 550", "Radeon VII",
     "AMD RDNA3 Graphics", "Arc A770", "UHD Graphics 630", "Apple M1"}

VendorOf(name) ==
    CASE name \in {"Tesla T4", "NVIDIA A100", "GeForce GTX 1050"} -> "nvidia"
      [] name \in {"Instinct MI300X", "Radeon RX 7900 XTX", "Radeon RX 550",
                   "Radeon VII", "AMD RDNA3 Graphics"} -> "amd"
      [] name \in {"Arc A770", "UHD Graphics 630"} -> "intel"
      [] OTHER -> "apple"

\* Python's `sub in name` for the substrings the package tests: the tested
\* substrings that occur in each name.
Substrings(name) ==
    CASE name = "Tesla T4" -> {"T4"}
      [] name = "NVIDIA A100" -> {"A100", "A10"}
      [] name = "Instinct MI300X" -> {"Instinct", "MI300", "MI"}
      [] name = "Radeon RX 7900 XTX" -> {"RX 7900", "RX 7"}
      [] name = "Radeon VII" -> {"Radeon VII", "VII"}
      [] name = "Arc A770" -> {"Arc A", "Arc"}
      [] name = "Apple M1" -> {"M1"}
      [] OTHER -> {}

\* The same for name.upper().
UpperSubstrings(name) ==
    IF name = "AMD RDNA3 Graphics" THEN {"RDNA", "RDNA3"} ELSE {}

INFERENCE_GPUS ==
    [nvidia |-> {"T4", "A10", "A16", "A2", "L4", "L40"},
     intel |-> {"Flex", "Max", "Arc A"},
     amd |-> {"MI210", "MI250", "MI300", "MI100", "MI60", "MI50", "Instinct",
              "RX 6900", "RX 6800", "RX 6700", "RX 7900", "RX 7800", "RX 7700",
              "RX 7600", "Radeon Pro W6800", "Radeon Pro W6900", "Radeon Pro W7900",
              "Radeon Pro V620", "Radeon Pro V520", "RX 7950", "RX 7800 XT",
              "RX 7700 XT"}]

AMD_ROCM_CAPABLE ==
    {"RX 6950", "RX 6900", "RX 6800", "RX 6750", "RX 6700", "RX 6650", "RX 6600",
     "RX 7900", "RX 7800", "RX 7700", "RX 7600", "Vega 64", "Vega 56", "Vega VII",
     "Radeon VII"}

APPLE_CHIPS == <<"M1", "M2", "M3">>

\* What nvidia-smi's compute_cap column can hold, and float() of it in tenths
\* (-1: float() raises ValueError).
ComputeCaps == {"7.5", "6.1", "5.2", ""}

float10(text) ==
    CASE text = "7.5" -> 75
      [] text = "6.1" -> 61
      [] text = "5.2" -> 52
      [] OTHER -> -1

\* memory_mb as reported (0: not reported).
MemorySizes == {0, 2048, 4096, 6144, 8192, 16384}

\* GPUInfo.__init__: both capabilities start False.
GPUInfo(name, memory_mb, compute_capability) ==
    [vendor |-> VendorOf(name), name |-> name, memory_mb |-> memory_mb,
     compute_capability |-> compute_capability,
     is_inference_capable |-> FALSE, is_training_capable |-> FALSE]

DetectedGpus ==
    {GPUInfo(n, m, c) : n \in GpuNames, m \in MemorySizes, c \in ComputeCaps}
    \ {g \in {GPUInfo(n, m, c) : n \in GpuNames, m \in MemorySizes, c \in ComputeCaps} :
         g.vendor # "nvidia" /\ g.compute_capability # ""}

AnyIn(subs, name) == subs \cap Substrings(name) # {}

classify_nvidia(g) ==
    LET cc == float10(g.compute_capability)
        train == cc >= 70
        inf == IF cc = -1 THEN FALSE ELSE IF cc >= 70 THEN TRUE ELSE cc >= 60
    IN  [g EXCEPT !.is_training_capable = train,
                  !.is_inference_capable = inf \/ AnyIn(INFERENCE_GPUS.nvidia, g.name)]

classify_amd(g) ==
    LET optimized == AnyIn(INFERENCE_GPUS.amd, g.name)
        rocm == ~optimized /\ AnyIn(AMD_ROCM_CAPABLE, g.name)
        rdna == "RDNA" \in UpperSubstrings(g.name)
        vega == AnyIn({"Vega", "VII"}, g.name)
        inf == optimized \/ rocm \/ rdna \/ vega
        train == \/ optimized /\ AnyIn({"MI", "Pro", "Instinct"}, g.name)
                 \/ rocm /\ AnyIn({"RX 6", "RX 7", "Vega", "VII"}, g.name)
                 \/ rdna
                 \/ vega
    IN  IF g.memory_mb > 0 /\ g.memory_mb < 4096
        THEN [g EXCEPT !.is_inference_capable = FALSE, !.is_training_capable = FALSE]
        ELSE IF g.memory_mb > 0 /\ g.memory_mb < 8192
        THEN [g EXCEPT !.is_inference_capable = inf, !.is_training_capable = FALSE]
        ELSE [g EXCEPT !.is_inference_capable = inf, !.is_training_capable = train]

classify_intel(g) ==
    LET xmx == AnyIn(INFERENCE_GPUS.intel, g.name)
    IN  [g EXCEPT !.is_inference_capable = xmx, !.is_training_capable = xmx]

classify_apple(g) ==
    [g EXCEPT !.is_inference_capable = TRUE, !.is_training_capable = TRUE]

\* GPUDetector._classify_gpu_capabilities
classify_gpu_capabilities(g) ==
    CASE g.vendor = "nvidia" -> classify_nvidia(g)
      [] g.vendor = "amd" -> classify_amd(g)
      [] g.vendor = "intel" -> classify_intel(g)
      [] g.vendor = "apple" -> classify_apple(g)
      [] OTHER -> g

\* A vendor tool has reported one GPU.
InitGpu ==
    /\ pool = EmptyPool
    /\ now = 0
    /\ ManagerAtRest
    /\ MonAtRest
    /\ mode = "auto"
    /\ cli = NoCli
    /\ rn = NoRn
    /\ env = NoEnv
    /\ call = NoCall
    /\ UnitsAtRest
    /\ lbl = NoLbl
    /\ aff = NoAff
    /\ emu = NoEmu
    /\ gpu \in [pc : {"detected"}, info : DetectedGpus]

OthersUnchanged ==
    /\ UNCHANGED <<pool, now, mode, cli, rn, env, call, issued>>
    /\ ManagerUnchanged
    /\ MonUnchanged
    /\ UnitsUnchanged

\* The detection method classifies the GPU it has just built.
ClassifyGpu ==
    /\ gpu.pc = "detected"
    /\ gpu' = [pc |-> "classified", info |-> classify_gpu_capabilities(gpu.info)]
    /\ UNCHANGED <<lbl, aff, emu>>
    /\ OthersUnchanged

NextGpu == ClassifyGpu

SpecGpu == InitGpu /\ [][NextGpu]_vars

\* ------------------------------------------------------- runner labels
\* GitPlatformAPI.get_runner_labels of each implementation.
get_runner_labels(pf) ==
    IF pf = "gitlab" THEN <<"docker", "linux">> ELSE <<"self-hosted", "linux">>

\* RunnerConfig.labels: RUNNER_LABELS split at the commas (the first is the default).
ConfigLabels ==
    {<<"self-hosted", "linux", "ARM64">>, <<"linux", "x64">>, <<"ci">>}

lower(chip) ==
    CASE chip = "M1" -> "m1" [] chip = "M2" -> "m2" [] chip = "M3" -> "m3" [] OTHER -> chip

\* The first element of a list that the name contains, as a list of its own.
FirstChipIn(chips, name) ==
    LET hits == {i \in 1..Len(chips) : chips[i] \in Substrings(name)}
    IN  IF hits = {} THEN <<>>
        ELSE <<lower(chips[CHOOSE i \in hits : \A j \in hits : i <= j])>>

model_labels(g) ==
    LET has(sub) == sub \in Substrings(g.name)
    IN  CASE g.vendor = "nvidia" ->
                 IF has("T4") THEN <<"t4">>
                 ELSE IF has("A100") \/ has("A10") THEN <<"ampere">>
                 ELSE IF has("V100") THEN <<"volta">> ELSE <<>>
          [] g.vendor = "amd" ->
                 IF has("MI")
                 THEN <<"mi-series">> \o
                      (IF has("MI300") THEN <<"mi300">>
                       ELSE IF has("MI250") THEN <<"mi250">>
                       ELSE IF has("MI210") THEN <<"mi210">> ELSE <<>>)
                 ELSE IF has("RX 7") THEN <<"rdna3", "rx7000">>
                 ELSE IF has("RX 6") THEN <<"rdna2", "rx6000">>
                 ELSE IF has("Vega") \/ has("VII") THEN <<"vega">>
                 ELSE IF has("Radeon Pro") THEN <<"radeon-pro">> ELSE <<>>
          [] g.vendor = "intel" ->
                 IF has("Arc") THEN <<"arc">>
                 ELSE IF has("Flex") THEN <<"flex">>
                 ELSE IF has("Max") THEN <<"max">> ELSE <<>>
          [] g.vendor = "apple" -> FirstChipIn(APPLE_CHIPS, g.name)
          [] OTHER -> <<>>

\* GPUDetector.get_gpu_labels
get_gpu_labels(g) ==
    <<"self-hosted", "gpu", g.vendor>>
    \o (IF g.is_inference_capable THEN <<"inference">> ELSE <<>>)
    \o (IF g.is_training_capable THEN <<"training">> ELSE <<>>)
    \o model_labels(g)

\* No GPU assigned (Python's None).
NoGpuInfo == [vendor |-> "none"]

\* What detect_all_gpus hands out: classified GPUs.
AssignableGpus ==
    {classify_gpu_capabilities(g) :
        g \in {h \in DetectedGpus : h.memory_mb = 16384 /\ h.compute_capability \in {"7.5", ""}}}

\* DynamicRunnerManager._build_labels
build_labels(pf, arch, g) ==
    get_runner_labels(pf) \o <<arch>>
    \o (IF g # NoGpuInfo THEN get_gpu_labels(g) ELSE <<>>)

\* RunnerManager.register_runners: the custom_labels it composes.
custom_labels(config_labels, g) ==
    config_labels \o (IF g # NoGpuInfo THEN get_gpu_labels(g) ELSE <<>>)

\* Runner.register: the list joined into the --labels value of config.sh is
\* self.config.labels; the platform, the architecture and the GPU are not read.
register_labels(config_labels, pf, arch, g) == config_labels

\* One runner about to be composed: its platform, the configured labels, its
\* target architecture and its GPU assignment.
InitLabels ==
    /\ pool = EmptyPool
    /\ now = 0
    /\ ManagerAtRest
    /\ MonAtRest
    /\ mode = "auto"
    /\ cli = NoCli
    /\ rn = NoRn
    /\ env = NoEnv
    /\ call = NoCall
    /\ UnitsAtRest
    /\ aff = NoAff
    /\ gpu = NoGpu
    /\ emu = NoEmu
    /\ lbl \in [pc : {"on"}, platform : Platforms, config_labels : ConfigLabels,
                arch : TargetArchs, gpu : AssignableGpus \cup {NoGpuInfo},
                done : {{}}, built : {<<>>}, custom : {<<>>}, registered : {<<>>}]

\* DynamicRunnerManager._add_runner composes the runner's labels.
BuildLabels ==
    /\ lbl.pc = "on"
    /\ "build" \notin lbl.done
    /\ lbl' = [lbl EXCEPT !.done = @ \cup {"build"},
                          !.built = build_labels(lbl.platform, lbl.arch, lbl.gpu)]
    /\ UNCHANGED <<aff, gpu, emu>>
    /\ OthersUnchanged

\* RunnerManager.register_runners composes the runner's labels.
CustomLabels ==
    /\ lbl.pc = "on"
    /\ "custom" \notin lbl.done
    /\ lbl' = [lbl EXCEPT !.done = @ \cup {"custom"},
                          !.custom = custom_labels(lbl.config_labels, lbl.gpu)]
    /\ UNCHANGED <<aff, gpu, emu>>
    /\ OthersUnchanged

\* Runner.register builds the config.sh command line.
RegisterLabels ==
    /\ lbl.pc = "on"
    /\ "register" \notin lbl.done
    /\ lbl' = [lbl EXCEPT !.done = @ \cup {"register"},
                          !.registered = register_labels(lbl.config_labels, lbl.platform,
                                                         lbl.arch, lbl.gpu)]
    /\ UNCHANGED <<aff, gpu, emu>>
    /\ OthersUnchanged

NextLabels ==
    \/ BuildLabels
    \/ CustomLabels
    \/ RegisterLabels

SpecLabels == InitLabels /\ [][NextLabels]_vars

\* --------------------------------------------------- ResourceOptimizer
MIN_HOST_CPU_CORES == 2
RECOMMENDED_HOST_CPU_PERCENT == 20

\* psutil.cpu_count(logical=False) of the hosts considered.
PhysicalCores == {2, 4, 8, 16}

\* cores_logical // cores_physical: no SMT, two-way, four-way.
ThreadsPerCore == {1, 2, 4}

CpuKinds == {"generic", "xeon_e5_2660", "apple_silicon"}

\* range(a, b) as a list.
range(a, b) == [i \in 1..(IF b > a THEN b - a ELSE 0) |-> a + i - 1]

\* max(MIN_HOST_CPU_CORES, int(cores_physical * RECOMMENDED_HOST_CPU_PERCENT / 100))
host_cores(cores_physical) ==
    Max(MIN_HOST_CPU_CORES, (cores_physical * RECOMMENDED_HOST_CPU_PERCENT) \div 100)

\* calculate_optimal_resources(...)['cpu_cores_per_runner'] with optimization on.
cpu_cores_per_runner(cores_physical, kind, runner_count) ==
    LET available_cpu == Max(1, cores_physical - host_cores(cores_physical))
        generic == Max(1, available_cpu \div runner_count)
        xeon == IF kind = "xeon_e5_2660" THEN Min(generic, 4) ELSE generic
    IN  IF kind = "apple_silicon"
        THEN Max(2, (cores_physical \div 2) \div runner_count)
        ELSE xeon

\* ResourceOptimizer.get_cpu_affinity
get_cpu_affinity(cores_physical, threads_per_core, runner_id, cores_per_runner) ==
    LET start_core == host_cores(cores_physical) + (runner_id - 1) * cores_per_runner
        end_core == Min(start_core + cores_per_runner, cores_physical)
        cpu_list == range(start_core, end_core)
    IN  IF threads_per_core = 2
        THEN cpu_list \o [i \in 1..Len(cpu_list) |-> cpu_list[i] + cores_physical]
        ELSE cpu_list

\* A host, a pool size (runner_count of RunnerManager, max_runners of
\* DynamicRunnerManager) and the id of the runner being built: 1..pool size
\* from register_runners, and beyond it from next_runner_id once runners have
\* been removed and replaced.
InitAffinity ==
    /\ pool = EmptyPool
    /\ now = 0
    /\ ManagerAtRest
    /\ MonAtRest
    /\ mode = "auto"
    /\ cli = NoCli
    /\ rn = NoRn
    /\ env = NoEnv
    /\ call = NoCall
    /\ UnitsAtRest
    /\ lbl = NoLbl
    /\ gpu = NoGpu
    /\ emu = NoEmu
    /\ \E n \in 1..MaxPoolSize :
         aff \in [pc : {"host"}, cores_physical : PhysicalCores,
                  threads_per_core : ThreadsPerCore, kind : CpuKinds,
                  runner_count : {n}, runner_id : 1..(n + MaxReplaced),
                  cores_per_runner : {0}, cpu_affinity : {<<>>}]

\* calculate_optimal_resources for the pool size.
CalculateResources ==
    /\ aff.pc = "host"
    /\ aff' = [aff EXCEPT !.pc = "planned",
                          !.cores_per_runner =
                              cpu_cores_per_runner(aff.cores_physical, aff.kind,
                                                   aff.runner_count)]
    /\ UNCHANGED <<lbl, gpu, emu>>
    /\ OthersUnchanged

\* get_cpu_affinity(runner_id, allocation['cpu_cores_per_runner'])
GetCpuAffinity ==
    /\ aff.pc = "planned"
    /\ aff' = [aff EXCEPT !.pc = "bound",
                          !.cpu_affinity =
                              get_cpu_affinity(aff.cores_physical, aff.threads_per_core,
                                               aff.runner_id, aff.cores_per_runner)]
    /\ UNCHANGED <<lbl, gpu, emu>>
    /\ OthersUnchanged

NextAffinity ==
    \/ CalculateResources
    \/ GetCpuAffinity

SpecAffinity == InitAffinity /\ [][NextAffinity]_vars

\* ---------------------------------------------------- EmulationManager
\* Architecture names a caller can pass: RunnerConfig.arch is RUNNER_ARCH as
\* typed or detect_architecture(); targets come from RUNNER_TARGET_ARCHITECTURES.
ArchNames == {"x64", "amd64", "x86_64", "arm64", "aarch64", "riscv64"}

\* The keys of SUPPORTED_ARCHITECTURES and their qemu_arch ("None" for None).
SUPPORTED_ARCHITECTURES == {"x64", "arm64", "riscv64"}

qemu_arch(arch) ==
    CASE arch = "arm64" -> "aarch64" [] arch = "riscv64" -> "riscv64" [] OTHER -> "None"

\* The methods the class EmulationManager defines.  The body that tests for
\* qemu-aarch64-static follows _determine_emulation_method's return statement
\* without a def line of its own, so there is no check_qemu_installed.
EmulationManagerMethods ==
    {"_determine_emulation_method", "check_binfmt_support", "install_qemu",
     "enable_binfmt", "_enable_binfmt_container", "_enable_binfmt_native",
     "setup_emulation", "is_emulation_needed", "verify_emulation",
     "_is_runtime_available", "get_supported_architectures", "is_emulation_enabled"}

\* What `uname -m` prints in a container of a platform.
Machines == {"x86_64", "aarch64", "riscv64"}

\* The host as one call finds it: binfmt registered for the qemu architectures
\* in binfmt, a container runtime on the PATH or not, and how each external
\* command of the call will end.
HostStates ==
    [binfmt : SUBSET {"aarch64", "riscv64"}, runtime : BOOLEAN, qemu_installed : BOOLEAN,
     install_ok : BOOLEAN, enable_ok : BOOLEAN, run_ok : BOOLEAN, machine : Machines]

\* EmulationManager.is_emulation_needed
is_emulation_needed(target_arch, host_arch) ==
    IF target_arch = host_arch THEN FALSE
    ELSE IF target_arch \in {"x64", "amd64"} /\ host_arch \in {"x64", "amd64"} THEN FALSE
    ELSE IF target_arch \in {"arm64", "aarch64"} /\ host_arch \in {"arm64", "aarch64"}
         THEN FALSE
    ELSE TRUE

\* check_binfmt_support(arch): update-binfmts --display qemu-<arch>, or the
\* entry under /proc/sys/fs/binfmt_misc.
check_binfmt_support(h, arch) == arch \in h.binfmt

\* verify_emulation(arch): ran = the container was run, machine = what it printed.
verify_emulation(h, arch) ==
    IF arch \notin {"x64", "arm64", "riscv64"}
    THEN [result |-> FALSE, ran |-> FALSE]
    ELSE IF ~h.runtime
    THEN [result |-> IF arch \in SUPPORTED_ARCHITECTURES /\ qemu_arch(arch) # "None"
                     THEN check_binfmt_support(h, qemu_arch(arch)) ELSE TRUE,
          ran |-> FALSE]
    ELSE [result |-> h.run_ok, ran |-> TRUE]

\* setup_emulation(target_arch, host_arch): "true" / "false" are its return
\* values, "raised" an exception leaving it; provisioned = enable_binfmt was
\* reached and succeeded.
setup_emulation(h, target_arch, host_arch) ==
    LET end(res, prov, ran) == [result |-> res, provisioned |-> prov, ran |-> ran]
    IN  IF ~is_emulation_needed(target_arch, host_arch) THEN end("true", FALSE, FALSE)
        ELSE IF target_arch \notin SUPPORTED_ARCHITECTURES THEN end("false", FALSE, FALSE)
        ELSE IF check_binfmt_support(h, qemu_arch(target_arch))
             THEN end("true", FALSE, FALSE)
        ELSE IF "check_qemu_installed" \notin EmulationManagerMethods
             THEN end("raised", FALSE, FALSE)
        ELSE IF ~h.qemu_installed /\ ~h.install_ok THEN end("false", FALSE, FALSE)
        ELSE IF ~h.enable_ok THEN end("false", FALSE, FALSE)
        ELSE LET v == verify_emulation([h EXCEPT !.binfmt = @ \cup {qemu_arch(target_arch)}],
                                       target_arch)
             IN  end(IF v.result THEN "true" ELSE "false", TRUE, v.ran)

\* An EmulationManager and a caller about to ask for one target on one host.
InitEmu ==
    /\ pool = EmptyPool
    /\ now = 0
    /\ ManagerAtRest
    /\ MonAtRest
    /\ mode = "auto"
    /\ cli = NoCli
    /\ rn = NoRn
    /\ env = NoEnv
    /\ call = NoCall
    /\ UnitsAtRest
    /\ lbl = NoLbl
    /\ aff = NoAff
    /\ gpu = NoGpu
    /\ emu \in [pc : {"idle"}, target_arch : ArchNames, host_arch : ArchNames,
                op : {"none"}, result : {"none"}, provisioned : {FALSE}, ran : {FALSE},
                machine : {"none"}]

EmuDone(op, res, prov, ran, machine) ==
    [emu EXCEPT !.pc = "done", !.op = op, !.result = res, !.provisioned = prov,
                !.ran = ran, !.machine = IF ran THEN machine ELSE "none"]

\* emulation_mgr.is_emulation_needed(target_arch, config.arch)
IsEmulationNeeded ==
    /\ emu.pc = "idle"
    /\ emu' = EmuDone("is_emulation_needed",
                      IF is_emulation_needed(emu.target_arch, emu.host_arch)
                      THEN "true" ELSE "false", FALSE, FALSE, "none")
    /\ UNCHANGED <<lbl, aff, gpu>>
    /\ OthersUnchanged

\* emulation_mgr.setup_emulation(target_arch, config.arch)
SetupEmulation ==
    /\ emu.pc = "idle"
    /\ \E h \in HostStates :
         \E out \in {setup_emulation(h, emu.target_arch, emu.host_arch)} :
            emu' = EmuDone("setup_emulation", out.result, out.provisioned, out.ran,
                           h.machine)
    /\ UNCHANGED <<lbl, aff, gpu>>
    /\ OthersUnchanged

\* emulation_mgr.verify_emulation(target_arch), called on its own.
VerifyEmulation ==
    /\ emu.pc = "idle"
    /\ \E h \in HostStates :
         \E out \in {verify_emulation(h, emu.target_arch)} :
            emu' = EmuDone("verify_emulation", IF out.result THEN "true" ELSE "false",
                           FALSE, out.ran, h.machine)
    /\ UNCHANGED <<lbl, aff, gpu>>
    /\ OthersUnchanged

NextEmu ==
    \/ IsEmulationNeeded
    \/ SetupEmulation
    \/ VerifyEmulation

SpecEmu == InitEmu /\ [][NextEmu]_vars

\* ------------------------------------------------- claims on the scaling tick
\* ------------------------------------------- a Runner's child processes
\* A Runner after __init__: no handle, no child; run.sh is there or not.
InitChild ==
    /\ pool = EmptyPool
    /\ now = 0
    /\ ManagerAtRest
    /\ MonAtRest
    /\ mode = "auto"
    /\ cli = NoCli
    /\ rn = NoRn
    /\ env = NoEnv
    /\ call = NoCall
    /\ HostAtRest
    /\ job = {}
    /\ reg = NoReg
    /\ asg = NoAsg
    /\ tst = NoTst
    /\ os \in [pc : {"idle"}, run_sh : BOOLEAN, handle : {0}, live : {{}},
               spawned : {0}, signals : {<<>>}, waited : {0}, last : {"none"},
               result : {"none"}, before : {[handle |-> 0, live |-> {}]}]

\* Everything but job, os, reg, asg and tst.
UnitFrame ==
    /\ UNCHANGED <<pool, now, mode, cli, rn, env, call, issued>>
    /\ ManagerUnchanged
    /\ MonUnchanged
    /\ UNCHANGED <<lbl, aff, gpu, emu>>

\* Runner.start(): run.sh must exist; self.process = Popen([run.sh]) whatever
\* self.process held before.  Children are numbered in the order of launch;
\* handle 0 is None.
start_child(o, popen_ok) ==
    LET called == [o EXCEPT !.last = "start", !.signals = <<>>, !.waited = 0]
    IN  IF ~o.run_sh THEN [called EXCEPT !.result = "false"]
        ELSE IF ~popen_ok THEN [called EXCEPT !.result = "false"]
        ELSE [called EXCEPT !.handle = o.spawned + 1, !.spawned = o.spawned + 1,
                            !.live = o.live \cup {o.spawned + 1}, !.result = "true"]

\* The first half of Runner.stop(): no handle -> True; terminate() (which
\* signals only a child that has not exited), then wait(timeout=30) begins.
\* Any exception but TimeoutExpired -> False.
stop_terminate(o, term_ok) ==
    LET called == [o EXCEPT !.last = "stop", !.signals = <<>>, !.waited = 0,
                            !.before = [handle |-> o.handle, live |-> o.live]]
    IN  IF o.handle = 0 THEN [called EXCEPT !.result = "true"]
        ELSE IF ~term_ok THEN [called EXCEPT !.result = "false"]
        ELSE [called EXCEPT !.pc = "waiting", !.result = "none",
                            !.signals = IF o.handle \in o.live
                                        THEN <<"SIGTERM">> ELSE <<>>]

\* A stop() that gives up at the timeout and reports success.
stop_wait_no_kill(o, kill_ok) ==
    IF o.handle \notin o.live THEN [o EXCEPT !.pc = "idle", !.result = "true"]
    ELSE IF o.waited < stop_timeout
    THEN [o EXCEPT !.waited = IF @ + WaitStep > stop_timeout THEN stop_timeout
                              ELSE @ + WaitStep]
    ELSE [o EXCEPT !.pc = "idle", !.result = "true"]

\* The second half of Runner.stop(): wait(timeout=30) returns once the child
\* has exited -> True; at the timeout kill(), wait() and True.  An exception
\* of kill() leaves stop().
stop_wait(o, kill_ok) ==
    IF o.handle \notin o.live THEN [o EXCEPT !.pc = "idle", !.result = "true"]
    ELSE IF o.waited < stop_timeout
    THEN [o EXCEPT !.waited = IF @ + WaitStep > stop_timeout THEN stop_timeout
                              ELSE @ + WaitStep]
    ELSE IF kill_ok
    THEN [o EXCEPT !.pc = "idle", !.result = "true",
                   !.signals = Append(@, "SIGKILL"), !.live = @ \ {o.handle}]
    ELSE [o EXCEPT !.pc = "idle", !.result = "raised"]

\* runner.start()
ChildStart ==
    /\ os.pc = "idle"
    /\ os.spawned < MaxChildren
    /\ \E popen_ok \in BOOLEAN : os' = start_child(os, popen_ok)
    /\ UnitFrame
    /\ UNCHANGED <<job, reg, asg, tst>>

\* runner.stop() up to its wait
ChildStopBegin ==
    /\ os.pc = "idle"
    /\ \E term_ok \in BOOLEAN : os' = stop_terminate(os, term_ok)
    /\ UnitFrame
    /\ UNCHANGED <<job, reg, asg, tst>>

\* runner.stop() in its wait: WaitStep seconds pass, or the call ends
ChildStopWait ==
    /\ os.pc = "waiting"
    /\ \E kill_ok \in BOOLEAN : os' = stop_wait(os, kill_ok)
    /\ UnitFrame
    /\ UNCHANGED <<job, reg, asg, tst>>

\* A child exits: on its own, or because SIGTERM reached it.
ChildExits ==
    /\ \E c \in os.live :
          os' = [os EXCEPT !.live = @ \ {c},
                           !.last = IF os.pc = "idle" THEN "child_exit" ELSE @]
    /\ UnitFrame
    /\ UNCHANGED <<job, reg, asg, tst>>

NextChild ==
    \/ ChildStart
    \/ ChildStopBegin
    \/ ChildStopWait
    \/ ChildExits

SpecChild == InitChild /\ [][NextChild]_vars

\* ------------------------------------------- the command of register()
\* Registration tokens the platform hands out.
Tokens == {"AAAAC3NzaC1lZDI1", "BBBBB3NzaC1yc2EA"}

\* RUNNER_ADDITIONAL_FLAGS, split at blanks.
AdditionalFlags == {<<>>, <<"--no-default-labels">>}

\* cmd of Runner.register(), a list of words.
register_cmd(c, token) ==
    <<"config.sh", "--url", "https://github.com/owner/repo", "--token", token,
      "--name", "embeddenator-runner-x64-1", "--labels", "self-hosted,linux",
      "--work", "_work", "--unattended">>
    \o (IF c.replace_existing THEN <<"--replace">> ELSE <<>>)
    \o (IF c.ephemeral THEN <<"--ephemeral">> ELSE <<>>)
    \o (IF c.disable_auto_update THEN <<"--disableupdate">> ELSE <<>>)
    \o c.additional_flags

\* cmd[:k] of a Python list.
Prefix(cmd, k) == SubSeq(cmd, 1, IF k < Len(cmd) THEN k ELSE Len(cmd))

\* logger.debug(f"Running: {' '.join(cmd[:6])}..."): the words of the line.
debug_line(cmd) == <<"Running:">> \o Prefix(cmd, 6) \o <<"...">>

\* register() has its token and is about to build the command.
InitLog ==
    /\ pool = EmptyPool
    /\ now = 0
    /\ ManagerAtRest
    /\ MonAtRest
    /\ mode = "auto"
    /\ cli = NoCli
    /\ rn = NoRn
    /\ env = NoEnv
    /\ call = NoCall
    /\ HostAtRest
    /\ job = {}
    /\ os = NoOs
    /\ asg = NoAsg
    /\ tst = NoTst
    /\ reg \in [pc : {"token"}, token : Tokens,
                config : [replace_existing : BOOLEAN, ephemeral : BOOLEAN,
                          disable_auto_update : BOOLEAN,
                          additional_flags : AdditionalFlags],
                cmd : {<<>>}, log : {<<>>}, result : {"none"}]

\* cmd = [...] and the flags appended to it
RegisterBuildCommand ==
    /\ reg.pc = "token"
    /\ reg' = [reg EXCEPT !.pc = "built", !.cmd = register_cmd(reg.config, reg.token)]
    /\ UnitFrame
    /\ UNCHANGED <<job, os, asg, tst>>

\* self.logger.debug(...) before the command is run
RegisterLogCommand ==
    /\ reg.pc = "built"
    /\ reg' = [reg EXCEPT !.pc = "logged", !.log = Append(@, debug_line(reg.cmd))]
    /\ UnitFrame
    /\ UNCHANGED <<job, os, asg, tst>>

\* subprocess.run(cmd): config.sh exits with 0, with another code, or cannot
\* be run; the outcome is logged.
RegisterRunCommand ==
    /\ reg.pc = "logged"
    /\ \E outcome \in {"true", "false", "raised"} :
          reg' = [reg EXCEPT !.pc = "done",
                             !.result = IF outcome = "true" THEN "true" ELSE "false",
                             !.log = Append(@, IF outcome = "true"
                                               THEN <<"Runner", "registered", "successfully">>
                                               ELSE <<"Registration", "failed:">>)]
    /\ UnitFrame
    /\ UNCHANGED <<job, os, asg, tst>>

NextLog ==
    \/ RegisterBuildCommand
    \/ RegisterLogCommand
    \/ RegisterRunCommand

SpecLog == InitLog /\ [][NextLog]_vars

\* ------------------------------------------------- GPUs given to runners
\* GPUDetector.get_inference_gpus
get_inference_gpus(gpus) == SelectSeq(gpus, LAMBDA g : g.is_inference_capable)

\* gpu_assignments of RunnerManager.register_runners; NoGpuInfo is None.
\* Reading config.inference_only raises AttributeError unless somebody has
\* set it ("unset": RunnerConfig.__init__ does not).
gpu_assignments(available_gpus, inference_only, runner_count) ==
    IF available_gpus = <<>> THEN [raised |-> FALSE, gpus |-> [i \in 1..runner_count |-> NoGpuInfo]]
    ELSE IF inference_only = "unset" THEN [raised |-> TRUE, gpus |-> <<>>]
    ELSE LET usable_gpus == IF inference_only = "true"
                            THEN get_inference_gpus(available_gpus)
                            ELSE available_gpus
         IN  [raised |-> FALSE,
              gpus |-> [i \in 1..runner_count |->
                          IF i - 1 < Len(usable_gpus) THEN usable_gpus[i]
                          ELSE IF usable_gpus # <<>>
                               THEN usable_gpus[((i - 1) % Len(usable_gpus)) + 1]
                               ELSE NoGpuInfo]]

\* The GPU DynamicRunnerManager._add_runner gives to runner runner_id.
add_runner_gpu(gpus, runner_id) ==
    IF gpus # <<>> THEN gpus[((runner_id - 1) % Len(gpus)) + 1] ELSE NoGpuInfo

\* The lists detect_all_gpus can return on one host.
GpuLists == UNION {[1..n -> AssignableGpus] : n \in 0..MaxGpus}

\* A host with its GPUs detected and classified, and the setting.
InitAssign ==
    /\ pool = EmptyPool
    /\ now = 0
    /\ ManagerAtRest
    /\ MonAtRest
    /\ mode = "auto"
    /\ cli = NoCli
    /\ rn = NoRn
    /\ env = NoEnv
    /\ call = NoCall
    /\ HostAtRest
    /\ job = {}
    /\ os = NoOs
    /\ reg = NoReg
    /\ tst = NoTst
    /\ asg \in [pc : {"detected"}, gpus : GpuLists,
                inference_only : {"unset", "true", "false"},
                runner_count : 1..MaxAssigned,
                registered : {[raised |-> FALSE, gpus |-> <<>>]}, added : {<<>>}]

\* register_runners prepares its GPU assignments
RegisterRunnersAssign ==
    /\ asg.pc = "detected"
    /\ asg' = [asg EXCEPT !.pc = "assigned",
                          !.registered = gpu_assignments(asg.gpus, asg.inference_only,
                                                         asg.runner_count)]
    /\ UnitFrame
    /\ UNCHANGED <<job, os, reg, tst>>

\* _add_runner picks the GPU of the next runner id
AddRunnerAssign ==
    /\ Len(asg.added) < MaxAssigned
    /\ asg' = [asg EXCEPT !.added = Append(@, add_runner_gpu(asg.gpus, Len(asg.added) + 1))]
    /\ UnitFrame
    /\ UNCHANGED <<job, os, reg, tst>>

NextAssign ==
    \/ RegisterRunnersAssign
    \/ AddRunnerAssign

SpecAssign == InitAssign /\ [][NextAssign]_vars

\* ---------------------------------------------------------- test_runner.py
\* One test binary of cargo test: how many tests it ran, how many passed.
Suites == {su \in [count : 0..MaxTests, passed : 0..MaxTests] : su.passed <= su.count}

SuiteLists == UNION {[1..n -> Suites] : n \in 0..MaxSuites}

\* The lines of the output the parser reacts to, in the order cargo prints
\* them: "running N tests", then "test result: ... P passed; ...".
RECURSIVE OutputLines(_)
OutputLines(suites) ==
    IF suites = <<>> THEN <<>>
    ELSE <<[kind |-> "running", n |-> Head(suites).count],
           [kind |-> "result", n |-> Head(suites).passed]>> \o OutputLines(Tail(suites))

\* parse_test_output before its loop.
NoCounts ==
    [test_run_index |-> 0, e2e_count |-> 0, e2e_passed |-> 0, integration_count |-> 0,
     integration_passed |-> 0, unit_count |-> 0, unit_passed |-> 0]

\* One pass of the loop of parse_test_output over a line.
parse_line(c, line) ==
    IF line.n = 0 THEN c
    ELSE IF line.kind = "running"
    THEN LET k == c.test_run_index + 1
         IN  CASE k = 1 -> [c EXCEPT !.test_run_index = k, !.e2e_count = line.n]
               [] k = 2 -> [c EXCEPT !.test_run_index = k, !.integration_count = line.n]
               [] k = 3 -> [c EXCEPT !.test_run_index = k, !.unit_count = line.n]
               [] OTHER -> [c EXCEPT !.test_run_index = k]
    ELSE IF c.e2e_count > 0 /\ c.e2e_passed = 0 THEN [c EXCEPT !.e2e_passed = line.n]
    ELSE IF c.integration_count > 0 /\ c.integration_passed = 0
         THEN [c EXCEPT !.integration_passed = line.n]
    ELSE IF c.unit_count > 0 /\ c.unit_passed = 0 THEN [c EXCEPT !.unit_passed = line.n]
    ELSE c

\* The validation at the end of main: the exit code.
exit_code(c) ==
    LET total_count == c.e2e_count + c.integration_count + c.unit_count
        total_passed == c.e2e_passed + c.integration_passed + c.unit_passed
    IN  IF total_count = 0 THEN 1
        ELSE IF c.e2e_count = 0 THEN 1
        ELSE IF c.integration_count = 0 THEN 1
        ELSE IF c.unit_count = 0 THEN 1
        ELSE IF total_passed # total_count THEN 1
        ELSE 0

\* cargo test has ended with some output.
InitTests ==
    /\ pool = EmptyPool
    /\ now = 0
    /\ ManagerAtRest
    /\ MonAtRest
    /\ mode = "auto"
    /\ cli = NoCli
    /\ rn = NoRn
    /\ env = NoEnv
    /\ call = NoCall
    /\ HostAtRest
    /\ job = {}
    /\ os = NoOs
    /\ reg = NoReg
    /\ asg = NoAsg
    /\ tst \in [pc : {"parsing"}, suites : SuiteLists, next : {1}, counts : {NoCounts},
                exit_code : {-1}]

\* The parser reads the next line.
ParseLine ==
    /\ tst.pc = "parsing"
    /\ tst.next <= Len(OutputLines(tst.suites))
    /\ tst' = [tst EXCEPT !.next = @ + 1,
                          !.counts = parse_line(@, OutputLines(tst.suites)[tst.next])]
    /\ UnitFrame
    /\ UNCHANGED <<job, os, reg, asg>>

\* main reports and calls sys.exit(exit_code).
TestsExit ==
    /\ tst.pc = "parsing"
    /\ tst.next > Len(OutputLines(tst.suites))
    /\ tst' = [tst EXCEPT !.pc = "exited", !.exit_code = exit_code(tst.counts)]
    /\ UnitFrame
    /\ UNCHANGED <<job, os, reg, asg>>

NextTests ==
    \/ ParseLine
    \/ TestsExit

SpecTests == InitTests /\ [][NextTests]_vars

\* --------------------------------------------- stop() during a tick
\* "while self.running" has just held: the monitor thread is inside
\* _check_and_scale and no longer looks at running.
MonitorEnter ==
    /\ mon_pc = "running"
    /\ running
    /\ mon_pc' = "in_tick"
    /\ tick' = NoTick
    /\ UNCHANGED <<pool, runner, cfg, platform, now, last_scale_time, next_runner_id,
                   lock, running, main_pc, last_effect, stopped_pool>>
    /\ MonUnchanged
    /\ LifeUnchanged
    /\ UNCHANGED issued

\* The tick that was entered runs to its end, whatever stop() did meanwhile:
\* join(timeout=10) gives up after ten seconds and stop() goes on.
MonitorFinishTick ==
    /\ mon_pc = "in_tick"
    /\ CheckAndScaleTick

\* A manager with min_runners = 0 on GitHub.
InitStop ==
    /\ Init
    /\ cfg.min_runners = 0
    /\ platform = "github"

NextStop ==
    \/ ClientAddRunner
    \/ Start
    \/ MonitorEnter
    \/ MonitorFinishTick
    \/ MonitorExit
    \/ Stop

SpecStop == InitStop /\ [][NextStop]_vars

\* -------------------------------------------------- the platform's jobs
\* Everything but the manager's pool, its runners and the jobs.
JobsFrame ==
    /\ UNCHANGED <<cfg, platform, now, last_scale_time, next_runner_id, lock, running,
                   main_pc, mon_pc, last_effect, stopped_pool, issued>>
    /\ MonUnchanged
    /\ UNCHANGED <<cli, rn, env, call, mode, lbl, aff, gpu, emu, os, reg, asg, tst>>

\* The platform hands a queued job to a pooled runner whose listener (run.sh)
\* is alive and registered.  The package is not told: mark_busy has no caller
\* in it, and no request asks the platform which runner is busy.
PlatformAssignJob ==
    /\ Alive
    /\ \E r \in Elems(pool.runners) \ job :
          /\ runner[r].registered
          /\ is_running(runner[r])
          /\ job' = job \cup {r}
    /\ tick' = NoTick
    /\ UNCHANGED <<pool, runner>>
    /\ JobsFrame

\* A job ends; the runner is free for the platform again.
PlatformJobDone ==
    /\ Alive
    /\ \E r \in job : job' = job \ {r}
    /\ tick' = NoTick
    /\ UNCHANGED <<pool, runner>>
    /\ JobsFrame

\* One manager (min_runners = 1, max_runners = 3) on GitHub, constructed a
\* cooldown before start().
InitJobs ==
    /\ Init
    /\ cfg.min_runners = MaxMinRunners
    /\ platform = "github"
    /\ last_scale_time = 0 - scale_cooldown

NextJobs ==
    \/ ClientAddRunner
    \/ ClientMarkBusy
    \/ ClientMarkIdle
    \/ Start
    \/ MonitorTick
    \/ PlatformAssignJob
    \/ PlatformJobDone

SpecJobs == InitJobs /\ [][NextJobs]_vars

\* ------------------------------------------------------------------ claims
OutsideCooldown == tick.valid /\ tick.q >= 0 /\ tick.at - tick.lst_before >= scale_cooldown

TickChangedNothing ==
    /\ tick.added = 0
    /\ tick.stopped = {}
    /\ tick.size_after = tick.cur
    /\ tick.lst_after = tick.lst_before

\* C1: a scaling tick that runs while now - last_scale_time < scale_cooldown
\* adds no runner, stops or removes none and leaves last_scale_time as it was,
\* whatever the queue and the pool are; and a tick that adds or stops a runner
\* comes at least scale_cooldown after the previous one that did.
C1_CooldownTickIdle ==
    tick.valid =>
        /\ (tick.at - tick.lst_before < scale_cooldown => TickChangedNothing)
        /\ ((tick.added > 0 \/ tick.stopped # {}) /\ tick.prev_effect >= 0
                => tick.at - tick.prev_effect >= scale_cooldown)

\* A tick inside the cooldown that saw an empty queue, two idle runners and a
\* pool above min_runners: the scale-down thresholds are crossed.
C1_Witness ==
    /\ tick.valid
    /\ tick.at - tick.lst_before < scale_cooldown
    /\ tick.q = 0
    /\ Len(tick.idle) > 1
    /\ tick.cur > cfg.min_runners
    /\ tick.size_after = tick.cur

\* C2: once start() has ended, and after every scaling tick, the pool holds at
\* least min_runners and at most max_runners runners.
C2_PoolWithinBounds ==
    /\ (main_pc \in {"started", "start_raised"}
          => /\ cfg.min_runners <= Len(pool.runners)
             /\ Len(pool.runners) <= cfg.max_runners)
    /\ (tick.valid
          => /\ cfg.min_runners <= tick.size_after
             /\ tick.size_after <= cfg.max_runners)

\* C3: a tick that decides to scale down returns, having removed exactly
\* min(idle_count - 1, pool size - min_runners) runners, the oldest idle first.
C3_ScaleDownCompletes ==
    (tick.valid /\ tick.kind = "down") =>
        LET k == Min(Len(tick.idle) - 1, tick.cur - cfg.min_runners)
        IN  /\ tick.returned
            /\ tick.stopped = {tick.idle[i] : i \in 1..k}
            /\ tick.size_after = tick.cur - k

\* C4: stop(), once called, has returned with the pool empty and every runner
\* that was pooled stopped, then deregistered, then cleaned up (a failed
\* deregistration or cleanup included).
C4_StopReturns ==
    main_pc \in {"stopped", "stop_blocked"} =>
        /\ main_pc = "stopped"
        /\ pool.runners = <<>>
        /\ \A r \in stopped_pool :
             /\ Len(runner[r].ops) = 3
             /\ runner[r].ops[1] = "stop"
             /\ runner[r].ops[2] \in {"deregister", "deregister_failed"}
             /\ runner[r].ops[3] \in {"cleanup", "cleanup_failed"}

\* C5: min=1, max=3, up_threshold=2, cooldown=60, check interval=30, one idle
\* runner, queue 5: the tick at t=30 adds two runners (pool 3, last_scale_time
\* 30), and the tick at t=60 after it changes nothing.
C5_ScaleUpScenario ==
    (/\ tick.valid
     /\ cfg.min_runners = 1
     /\ cfg.max_runners = 3
     /\ tick.q = 5)
    => /\ (tick.at = 30 /\ tick.cur = 1 /\ Len(tick.idle) = 1
            => /\ tick.added = 2
               /\ tick.size_after = 3
               /\ tick.lst_after = 30)
       /\ (tick.at = 60 /\ tick.lst_before = 30 => TickChangedNothing)

\* C6: outside the cooldown a tick scales up iff queue_length >
\* scale_up_threshold and pool size < max_runners; it then asks for
\* min(queue_length - idle_count, max_runners - pool size) additions and sets
\* last_scale_time to now when that is positive, and asks for none and leaves
\* last_scale_time alone when it is not.
C6_ScaleUpDecision ==
    OutsideCooldown =>
        LET wanted == tick.q > scale_up_threshold /\ tick.cur < cfg.max_runners
            n == Min(tick.q - Len(tick.idle), cfg.max_runners - tick.cur)
        IN  /\ (tick.kind = "up") = wanted
            /\ (wanted /\ n > 0 => tick.count = n /\ tick.lst_after = tick.at)
            /\ (wanted /\ n <= 0
                   => tick.count = 0 /\ tick.lst_after = tick.lst_before)

\* C8: the pool a scaling tick reads holds only runners whose child is alive:
\* one whose child exited on its own has been dropped before the next tick.
C8_PoolOnlyRunning == tick.valid => tick.dead_seen = {}

\* C14: whatever the manager has called, a runner with a live child is
\* registered, a runner taken off the platform has no live child, and a runner
\* whose install_dir was removed by cleanup had been deregistered successfully.
C14_LifecycleEdges ==
    \A r \in RunnerIds :
        runner[r].created =>
            /\ (runner[r].process = "live" => runner[r].registered)
            /\ (~runner[r].registered => runner[r].process # "live")
            /\ (~runner[r].installed => ~runner[r].registered)

C9_FailedReadSkipsTick == (tick.valid /\ tick.read_failed) => TickChangedNothing

\* ------------------------------------------------------ claims on RunnerPool
\* C7: after any sequence of add_runner, mark_busy, mark_idle and
\* remove_runner, idle_runners and busy_runners share no runner and together
\* hold exactly the runners of the pool.
C7_IdleBusyPartition ==
    /\ Elems(pool.idle_runners) \cap Elems(pool.busy_runners) = {}
    /\ Elems(pool.idle_runners) \cup Elems(pool.busy_runners) = Elems(pool.runners)

\* ------------------------------------------- claims on the auto-mode monitor
\* C10: the auto-mode monitor leaves its loop for idleness only when every
\* check since the idle timer was started got an answer from the platform and
\* that answer was an empty queue, for at least idle_timeout.
C10_IdleShutdownOnlyWhenEmpty ==
    auto_pc = "idle_shutdown" =>
        /\ idle_start # -1
        /\ now - idle_start >= idle_timeout
        /\ idle_evidence

\* C11: in manual mode with idle_timeout = 300 s and nobody asking for a
\* shutdown, the monitor has begun the idle shutdown by the time the clock
\* has passed 300 s.
C11_ManualIdleShutdown ==
    (mode = "manual" /\ ~shutdown_requested /\ now > idle_timeout)
        => auto_pc = "idle_shutdown"

\* --------------------------------------------------------- claims on cli.main
\* C12: the process exits with 130 exactly when a signal interrupted it, and
\* otherwise with 0 when the command succeeded and 1 when it failed; the
\* status command under a valid configuration has nothing that can fail.
C12_ExitCodes ==
    cli.pc = "exited" =>
        /\ cli.exit_code \in {0, 1, 130}
        /\ (cli.exit_code = 130) = cli.sigint
        /\ (~cli.sigint /\ cli.command = "status" /\ validate(cli, mode)
               => cli.exit_code = 0)
        /\ (~cli.sigint /\ (cli.command = "none" \/ ~validate(cli, mode))
               => cli.exit_code = 1)

\* ------------------------------------------------- claims on a single Runner
\* C13: a platform request whose first attempt fails transiently is tried
\* again, three attempts at most, before the call gives up.
C13_TransientRetried ==
    (call.requests > 0 /\ call.fails >= 1) => call.attempts \in 2..3

\* C15: the runner holds a child handle exactly while its child runs: no
\* handle is left once stop() has returned or the child has exited.
C15_HandleIffRunning ==
    /\ rn.process \in {"none", "live"}
    /\ (call.op = "stop" /\ call.result = "true" => rn.process = "none")

\* C16: a register() that fails after its install step succeeded leaves the
\* installation in place and spawns nothing, and leaves the runner where a
\* later register() can succeed without a download: the directory is there
\* and holds config.sh.
C16_RegisterFailureRetryable ==
    (/\ call.op = "register"
     /\ call.result = "false"
     /\ call.install \in {"ok_existing", "ok_fresh"})
    => /\ env.exists
       /\ rn.process = call.process_before
       /\ env.config_sh

\* C17: an install() that returns an error (unsupported architecture, download
\* error, unpack error) leaves no install_dir behind.
C17_FailedInstallRemovesDir ==
    call.install \in {"fail_arch", "fail_download", "fail_unpack"} => ~env.exists

\* C18: install() returns ok only with config.sh and run.sh in install_dir.
C18_InstallOkHasEntryPoints ==
    call.install \in {"ok_existing", "ok_fresh"} => env.config_sh /\ env.run_sh

\* C19: deregister() on a runner whose config.sh is gone returns success and
\* asks the platform for nothing, whatever the state of the network.
C19_DeregisterWithoutInstall ==
    (call.op = "deregister" /\ ~call.config_before)
        => call.result = "true" /\ call.requests = 0

\* A deregister() of a registered runner after its install_dir was cleaned
\* up, with the platform unreachable.
C19_Witness ==
    /\ call.op = "deregister"
    /\ ~call.config_before
    /\ ~env.exists
    /\ env.registered
    /\ call.fails > 0
    /\ call.result = "true"

\* C26: for every detected GPU of every vendor, after classification
\* inference_capable is false when its memory is below 4 GiB and
\* training_capable is false when its memory is below 8 GiB (stated for the
\* GPUs whose memory size the vendor tool reported).
C26_MemoryGate ==
    gpu.pc = "classified" /\ gpu.info.memory_mb > 0 =>
        /\ gpu.info.memory_mb < 4096 => ~gpu.info.is_inference_capable
        /\ gpu.info.memory_mb < 8192 => ~gpu.info.is_training_capable

NoDuplicates(s) == \A i, j \in 1..Len(s) : s[i] = s[j] => i = j

\* C21: the label set a runner is registered with is the platform default
\* labels, the user-configured labels, the runner's target architecture and,
\* if a GPU is assigned, that GPU's labels (so its vendor tag among them).
C21_RegisteredLabelSet ==
    (lbl.pc = "on" /\ "register" \in lbl.done) =>
        Elems(lbl.registered) =
            Elems(get_runner_labels(lbl.platform)) \cup Elems(lbl.config_labels)
            \cup {lbl.arch}
            \cup (IF lbl.gpu # NoGpuInfo THEN Elems(get_gpu_labels(lbl.gpu)) ELSE {})

\* C22: the label list composed for a runner, by either manager, contains no
\* token twice, with or without a GPU assignment.
C22_LabelsDeduplicated ==
    /\ (lbl.pc = "on" /\ "build" \in lbl.done) => NoDuplicates(lbl.built)
    /\ (lbl.pc = "on" /\ "custom" \in lbl.done) => NoDuplicates(lbl.custom)

\* C23: DynamicRunnerManager's lock is never held while a wait on a child
\* process (stop), a network call (deregister) or a removal of an install
\* directory (cleanup) is made: no thread holds the lock with such an
\* operation of its own behind it, so get_status() finds the lock free.
C23_LockNotHeldAcrossIO ==
    lock # "free" =>
        \A i \in RunnerIds :
            \A k \in 1..Len(runner[i].ops) :
                runner[i].ops[k] \notin {"stop", "deregister", "deregister_failed",
                                         "cleanup", "cleanup_failed"}

\* The logical CPUs of the physical cores [a, b) on the host of aff.
LogicalCpus(a, b) ==
    (a..(b - 1)) \cup
    (IF aff.threads_per_core = 2 THEN {c + aff.cores_physical : c \in a..(b - 1)} ELSE {})

\* C24: get_cpu_affinity(k, c) returns exactly the physical cores
\* [host_reserved + (k-1)*c, host_reserved + k*c), plus their siblings offset by
\* physical_cores when threads_per_core = 2, for every runner id the managers
\* pass, ids handed out after earlier runners were removed included.
C24_AffinityRange ==
    aff.pc = "bound" =>
        LET h == host_cores(aff.cores_physical)
            k == aff.runner_id
            c == aff.cores_per_runner
        IN  Elems(aff.cpu_affinity) = LogicalCpus(h + (k - 1) * c, h + k * c)

\* C25: every non-empty cpu_affinity set has a size that is a multiple of the
\* host's threads-per-core and contains no logical CPU of the host-reserved
\* cores, for every core count, threads-per-core value and runner id.
C25_AffinityShape ==
    (aff.pc = "bound" /\ aff.cpu_affinity # <<>>) =>
        /\ Cardinality(Elems(aff.cpu_affinity)) % aff.threads_per_core = 0
        /\ \A cpu \in Elems(aff.cpu_affinity) :
              \A t \in 0..(aff.threads_per_core - 1) :
                 cpu \notin {h + t * aff.cores_physical :
                                h \in 0..(host_cores(aff.cores_physical) - 1)}

SameArchitecture(a, b) ==
    \/ a = b
    \/ {a, b} \subseteq {"x64", "amd64", "x86_64"}
    \/ {a, b} \subseteq {"arm64", "aarch64"}

\* C27: setup_emulation(target, host) succeeds without doing anything
\* (is_emulation_needed is false) whenever target and host are equal, or both
\* in {x64, amd64, x86_64}, or both in {arm64, aarch64}; for every other pair
\* emulation is required.
C27_NoEmulationForSameArch ==
    /\ emu.op = "is_emulation_needed" =>
          (emu.result = "false" <=> SameArchitecture(emu.target_arch, emu.host_arch))
    /\ (emu.op = "setup_emulation" /\ SameArchitecture(emu.target_arch, emu.host_arch)) =>
          (emu.result = "true" /\ ~emu.provisioned /\ ~emu.ran)

\* C28: setup_emulation always ends by returning success or failure, never
\* with an error propagating to its caller.
C28_SetupReturns ==
    emu.op = "setup_emulation" => emu.result \in {"true", "false"}

MachineOf(arch) ==
    CASE arch \in {"x64", "amd64", "x86_64"} -> "x86_64"
      [] arch \in {"arm64", "aarch64"} -> "aarch64"
      [] OTHER -> arch

\* C29: after provisioning, success is reported only if the verification run
\* of uname -m in a container of the target platform printed a machine that
\* matches the target architecture.
C29_VerifiedMachineMatches ==
    (/\ emu.op = "verify_emulation" \/ (emu.op = "setup_emulation" /\ emu.provisioned)
     /\ emu.result = "true")
        => (emu.ran /\ emu.machine = MachineOf(emu.target_arch))

\* The last three calls on the runner were register(), deregister(),
\* register(), each returning True.
RegisterDeregisterRegister ==
    /\ Len(call.trail) = 3
    /\ call.trail[1].op = "register"
    /\ call.trail[2].op = "deregister"
    /\ call.trail[3].op = "register"

\* The platform lists the runner's name, and the runner's child is serving it.
OnlineEntries == IF env.registered /\ rn.process = "live" THEN 1 ELSE 0

\* C30 as stated: register, deregister, register on one runner, each
\* succeeding, leaves exactly one online entry for the runner's name on the
\* platform.
C30_OneOnlineEntry ==
    RegisterDeregisterRegister => OnlineEntries = 1

\* C30, amended: register, deregister, register, each succeeding, leaves what
\* the first register() left: one entry for the runner's name on the platform
\* (which deregister() had removed in between) and the same install
\* directory, nothing downloaded again; register() starts no child, so the
\* entry is online only if the runner's child is running.
C30_RegisterRoundTrip ==
    RegisterDeregisterRegister =>
        /\ env.registered
        /\ ~call.trail[2].env.registered
        /\ env = call.trail[1].env
        /\ (OnlineEntries = 1 <=> rn.process = "live")

C30_Witness ==
    /\ RegisterDeregisterRegister
    /\ call.op = "register" /\ call.result = "true"
    /\ env.registered
    /\ rn.process = "none"

\* C31: a scaling tick stops and deregisters only runners that are idle: none
\* of the pool's idle list is missing, and none that is executing a job of
\* the platform at that moment.
C31_OnlyIdleRunnersStopped ==
    tick.valid => /\ tick.stopped \subseteq Elems(tick.idle)
                  /\ tick.stopped \cap job = {}

\* C32: stop() on a live child sends SIGTERM, waits no longer than 30 s, and
\* only then sends SIGKILL and reaps; when stop() has returned success the
\* child of the handle is not running; stop() without a child returns
\* success, signals nothing and leaves every process as it was.
C32_StopEndsChild ==
    /\ os.waited <= stop_timeout
    /\ (os.pc = "waiting" /\ os.handle \in os.live) => os.signals = <<"SIGTERM">>
    /\ InList(os.signals, "SIGKILL") =>
          /\ os.signals = <<"SIGTERM", "SIGKILL">>
          /\ os.waited = stop_timeout
    /\ (os.last = "stop" /\ os.pc = "idle" /\ os.result = "true") =>
          os.handle \notin os.live
    /\ (os.last = "stop" /\ os.before.handle = 0) =>
          /\ os.pc = "idle"
          /\ os.result = "true"
          /\ os.signals = <<>>
          /\ os.handle = 0
          /\ os.live = os.before.live

C32_Witness ==
    /\ os.last = "stop"
    /\ os.pc = "idle"
    /\ os.result = "true"
    /\ os.signals = <<"SIGTERM", "SIGKILL">>

\* C33: every live child of the runner is the one its handle holds, so there
\* is at most one, whatever start() and stop() calls were made.
C33_OneLiveChild == os.live \subseteq {os.handle}

\* C35: no line register() writes to the log holds the registration token:
\* the logged part of the command ends before the token's value.
C35_TokenNotLogged ==
    \A i \in 1..Len(reg.log) : ~InList(reg.log[i], reg.token)

InferenceCapableOrNone(g) == g = NoGpuInfo \/ g.is_inference_capable

\* C34: with inference_only set, every GPU given to a runner is
\* inference-capable, in register_runners' assignments and in those of
\* _add_runner.
C34_InferenceOnlyAssignments ==
    asg.inference_only = "true" =>
        /\ \A i \in 1..Len(asg.registered.gpus) :
              InferenceCapableOrNone(asg.registered.gpus[i])
        /\ \A i \in 1..Len(asg.added) : InferenceCapableOrNone(asg.added[i])

\* The suites that ran at least one test, in the order of the output.
NonEmptySuites == SelectSeq(tst.suites, LAMBDA su : su.count > 0)

\* C39: exit code 0 only if the first three suites that the report names
\* each ran at least one test and every test of them passed.
C39_SuccessMeansAllPassed ==
    (tst.pc = "exited" /\ tst.exit_code = 0) =>
        /\ Len(NonEmptySuites) >= 3
        /\ \A i \in 1..3 : NonEmptySuites[i].passed = NonEmptySuites[i].count

====
